---- MODULE Spec2Model ----
(***************************************************************************)
(* Model of the cloud clients broker of lib/cloud/clients.go: the          *)
(* validation of assume-role chains (checkAndSetAssumeRoles), the cache    *)
(* key builder (AWSSessionCacheKeyBuilder), the lazily populated,          *)
(* lock-protected session cache behind cloudClients.GetAWSSession, the GCP *)
(* IAM and Azure MySQL clients and Close; and of the cached credentials    *)
(* getter of lib/utils/aws/credentials.go.                                 *)
(***************************************************************************)
EXTENDS Integers, Sequences, FiniteSets, TLC

VARIABLES
    awsSessions,   \* cloudClients.awsSessions: cache key -> session id
    mtx,           \* cloudClients.mtx: 0 when free, else the goroutine holding Lock()
    pc,            \* position of every goroutine inside GetAWSSession
    call,          \* arguments of the running call: region and the caller's roles
    local,         \* locals of the running call: roles, i, session, keyBuilder, cacheKey
    ret,           \* what the call returned: session and err
    nextSession,   \* identity of the next session object to be allocated
    net,           \* network calls made by the running call of every goroutine
    attempts,      \* assume-role calls issued so far, per cache key
    failures,      \* assume-role calls that did not produce a session so far
    prior,         \* what the calls with the same arguments had returned when the call began
    misses,        \* per goroutine, hops of the call that missed the read-locked lookup
    logs,          \* the lines the broker has written to the log
    returnedBefore, \* per goroutine, the goroutines whose call had returned when its call began
    stsCalls,      \* the assume-role credentials built so far: key, base session, role
    gcpIAM,        \* cloudClients.gcpIAM: Nil or the GCP IAM client
    azureCredential,   \* cloudClients.azureCredential: Nil or the credential
    azureMySQLClients, \* cloudClients.azureMySQLClients: subscription -> client
    client,        \* per goroutine, the client getter it runs, its subscription and cred
    nextClient,    \* identity of the next client object to be allocated
    instances,     \* every client object built so far: its kind, key and Close() count
    singletons,    \* cloudClients.instanceMetadata, gcpSQLAdmin, gcpGKE, azureSubscriptionsClient
    closeRet,      \* what the calls of cloudClients.Close have closed and returned, in order
    cfgIn,         \* the CachedCredentialsGetterConfig given to NewCachedCredentialsGetter
    config,        \* cachedCredentialsGetter.config
    fnCache,       \* cachedCredentialsGetter.cache: key -> value, error and time of load
    now,           \* the clock, in seconds
    nextCred,      \* identity of the next credentials object to be allocated
    getterCalls,   \* calls of the underlying getter so far, per request
    gets,          \* the calls of cachedCredentialsGetter.Get so far, in order
    vIn,           \* argument of the validation under test
    vOut,          \* its result
    kIn,           \* the two (region, chain) arguments of the key builders under test
    kOut,          \* the two key builders
    tIn,           \* TestCloudClients and the arguments of its GetAWSSession
    tOut           \* what TestCloudClients.GetAWSSession returned

clientVars == <<gcpIAM, azureCredential, azureMySQLClients, client, nextClient,
                instances, singletons, closeRet>>
brokerVars == <<awsSessions, mtx, pc, call, local, ret, nextSession, net, attempts,
                failures, prior, misses, logs, returnedBefore, stsCalls, clientVars>>
credVars == <<cfgIn, config, fnCache, now, nextCred, getterCalls, gets>>
valVars == <<vIn, vOut>>
keyVars == <<kIn, kOut>>
testVars == <<tIn, tOut>>
vars == <<awsSessions, mtx, pc, call, local, ret, nextSession, net, attempts,
          failures, prior, misses, logs, returnedBefore, stsCalls, gcpIAM, azureCredential,
          azureMySQLClients,
          client, nextClient, instances, singletons, closeRet, cfgIn, config, fnCache, now,
          nextCred, getterCalls, gets, vIn, vOut, kIn, kOut, tIn, tOut>>

(***************************************************************************)
(* Bounds.                                                                 *)
(***************************************************************************)
NumGoroutines == 2
MaxHops == 2
MaxValHops == 3
MaxKeyHops == 2
MaxCloses == 2
MaxGets == 3

Goroutines == 1..NumGoroutines

SeqsUpTo(S, n) == UNION {[1..k -> S] : k \in 0..n}

(***************************************************************************)
(* services.AssumeRole and the inputs.                                     *)
(***************************************************************************)
AssumeRole(arn, externalID) == [RoleARN |-> arn, ExternalID |-> externalID]

RoleA == "arn:aws:iam::111111111111:role/A"
RoleB == "arn:aws:iam::111111111111:role/B"
RoleC == "arn:aws:iam::222222222222:role/C"
RoleCN == "arn:aws-cn:iam::111111111111:role/D"
UserU == "arn:aws:iam::111111111111:user/U"
NotARN == "not-an-arn"

Regions == {"us-east-1", "cn-north-1"}
ExternalIDs == {"", "x"}

\* apiawsutils.GetPartitionFromRegion: the partition implied by a region.
GetPartitionFromRegion(region) ==
    IF region = "cn-north-1" THEN "aws-cn" ELSE "aws"

NoErr == [kind |-> "nil", a |-> "", b |-> ""]
Err(kind, a, b) == [kind |-> kind, a |-> a, b |-> b]

\* awsutils.ParseRoleARN: the parsed ARN of an IAM role, or an error when the
\* string is no ARN or names something that is not a role.
ParseRoleARN(s) ==
    CASE s = RoleA  -> [err |-> NoErr, Partition |-> "aws", AccountID |-> "111111111111"]
      [] s = RoleB  -> [err |-> NoErr, Partition |-> "aws", AccountID |-> "111111111111"]
      [] s = RoleC  -> [err |-> NoErr, Partition |-> "aws", AccountID |-> "222222222222"]
      [] s = RoleCN -> [err |-> NoErr, Partition |-> "aws-cn", AccountID |-> "111111111111"]
      [] OTHER      -> [err |-> Err("InvalidRoleARN", s, ""), Partition |-> "", AccountID |-> ""]

\* awsutils.CheckARNPartitionAndAccount with an empty wanted account.
CheckARNPartitionAndAccount(parsed, partition, s) ==
    IF parsed.Partition # partition
    THEN Err("PartitionMismatch", s, partition)
    ELSE NoErr

(***************************************************************************)
(* filterAssumeRoles and checkAndSetAssumeRoles.                           *)
(***************************************************************************)
filterAssumeRoles_KeepAll(roles) == roles

filterAssumeRoles(roles) ==
    IF Len(roles) = 0 THEN roles
    ELSE SelectSeq(roles, LAMBDA r : r.RoleARN # "")

\* Body of the first loop: parse roles[i] and check its partition.
CheckHop_NoPartition(role, partition) ==
    LET parsed == ParseRoleARN(role.RoleARN)
    IN  [err |-> parsed.err, arn |-> parsed]

CheckHop(role, partition) ==
    LET parsed == ParseRoleARN(role.RoleARN)
    IN  IF parsed.err # NoErr
        THEN [err |-> parsed.err, arn |-> parsed]
        ELSE [err |-> CheckARNPartitionAndAccount(parsed, partition, role.RoleARN),
              arn |-> parsed]

RECURSIVE ParseLoop(_, _, _, _)
ParseLoop(roles, partition, i, ARNs) ==
    IF i > Len(roles) THEN [err |-> NoErr, ARNs |-> ARNs]
    ELSE LET h == CheckHop(roles[i], partition)
         IN  IF h.err # NoErr THEN [err |-> h.err, ARNs |-> <<>>]
             ELSE ParseLoop(roles, partition, i + 1, Append(ARNs, h.arn))

\* Body of the second loop for the pair (roles[i], roles[i+1]).
PairStep_NoCheck(roles, ARNs, i) ==
    IF ARNs[i].AccountID = ARNs[i + 1].AccountID
    THEN [err |-> NoErr, roles |-> [roles EXCEPT ![i + 1].ExternalID = ""]]
    ELSE [err |-> NoErr, roles |-> roles]

PairStep_NoClear(roles, ARNs, i) ==
    IF ARNs[i].AccountID = ARNs[i + 1].AccountID
    THEN [err |-> NoErr, roles |-> roles]
    ELSE IF roles[i + 1].ExternalID = ""
         THEN [err |-> Err("MissingExternalID", roles[i].RoleARN, roles[i + 1].RoleARN),
               roles |-> <<>>]
         ELSE [err |-> NoErr, roles |-> roles]

PairStep_ClearFirst(roles, ARNs, i) ==
    IF ARNs[i].AccountID = ARNs[i + 1].AccountID
    THEN [err |-> NoErr, roles |-> [roles EXCEPT ![i].ExternalID = ""]]
    ELSE IF roles[i + 1].ExternalID = ""
         THEN [err |-> Err("MissingExternalID", roles[i].RoleARN, roles[i + 1].RoleARN),
               roles |-> <<>>]
         ELSE [err |-> NoErr, roles |-> roles]

PairStep(roles, ARNs, i) ==
    IF ARNs[i].AccountID = ARNs[i + 1].AccountID
    THEN [err |-> NoErr, roles |-> [roles EXCEPT ![i + 1].ExternalID = ""]]
    ELSE IF roles[i + 1].ExternalID = ""
         THEN [err |-> Err("MissingExternalID", roles[i].RoleARN, roles[i + 1].RoleARN),
               roles |-> <<>>]
         ELSE [err |-> NoErr, roles |-> roles]

RECURSIVE PairLoop(_, _, _)
PairLoop(roles, ARNs, i) ==
    IF i > Len(ARNs) - 1 THEN [err |-> NoErr, roles |-> roles]
    ELSE LET s == PairStep(roles, ARNs, i)
         IN  IF s.err # NoErr THEN s
             ELSE PairLoop(s.roles, ARNs, i + 1)

checkAndSetAssumeRoles(region, roles0) ==
    LET roles == filterAssumeRoles(roles0)
    IN  IF Len(roles) = 0 THEN [err |-> NoErr, roles |-> roles]
        ELSE LET partition == GetPartitionFromRegion(region)
                 p == ParseLoop(roles, partition, 1, <<>>)
             IN  IF p.err # NoErr THEN [err |-> p.err, roles |-> <<>>]
                 ELSE PairLoop(roles, p.ARNs, 1)

(***************************************************************************)
(* AWSSessionCacheKeyBuilder.                                              *)
(***************************************************************************)
NewAWSSessionCacheKeyBuilder(region) == [sb |-> region, roleCount |-> 0]

AddRole(c, awsRole) ==
    [sb |-> c.sb \o ":Role[" \o ToString(c.roleCount) \o "]:ARN[" \o awsRole.RoleARN
               \o "]:ExternalID[" \o awsRole.ExternalID \o "]",
     roleCount |-> c.roleCount + 1]

String(c) == c.sb

\* The loop "for i := range roles { keyBuilder.AddRole(roles[i]) }" from hop i.
RECURSIVE KeyOver(_, _, _)
KeyOver(c, roles, i) ==
    IF i > Len(roles) THEN c ELSE KeyOver(AddRole(c, roles[i]), roles, i + 1)

(***************************************************************************)
(* cloudClients: the session cache and GetAWSSession.  Every call of       *)
(* GetAWSSession runs in a goroutine of its own; the goroutines are        *)
(* numbered in the order in which their calls begin.                       *)
(*                                                                         *)
(* mtx is a sync.RWMutex.  A read-locked section (RLock, one map lookup,   *)
(* RUnlock) is one step that waits until no goroutine holds Lock(); mtx    *)
(* records the goroutine between Lock() and the deferred Unlock().         *)
(* net, attempts, failures, prior and misses record what has happened and  *)
(* are read by no step of the program.                                     *)
(***************************************************************************)
Nil == 0

NoLocal == [roles |-> <<>>, i |-> 0, session |-> Nil,
            keyBuilder |-> NewAWSSessionCacheKeyBuilder(""), cacheKey |-> ""]
NoCall == [region |-> "", roles |-> <<>>]
NoRet == [session |-> Nil, err |-> NoErr]

\* The roles a caller of the broker passes.
BrokerRoles == {AssumeRole(RoleA, ""), AssumeRole(RoleA, "x"), AssumeRole(RoleC, ""),
                AssumeRole("", "")}
BrokerChains == SeqsUpTo(BrokerRoles, MaxHops)

\* Outcomes of the assume-role step: the credential probe is accepted or
\* rejected by the cloud, or it is given up because the caller's context was
\* canceled while it was in flight, or the session cannot be built from the
\* credentials.
ProbeOutcomes == {"ok", "AccessDenied", "RequestCanceled", "NewSessionError"}

\* logrus.Debugf at lines 551 and 581: the line written for a region and for
\* the cache key of an assumed role (%q puts the key between double quotes).
RegionLine(region) == "Initializing AWS session for region " \o region \o "."
AssumedRoleLine(cacheKey) ==
    "Initializing AWS session for assumed role: \"" \o cacheKey \o "\"."

\* initAWSSessionForRole, lines 583-587: the credentials of the assume-role
\* call; the provider's ExternalID is set only when the role has one.
NewCredentials_AlwaysExternalID(cacheKey, baseSession, role) ==
    [cacheKey |-> cacheKey, baseSession |-> baseSession, RoleARN |-> role.RoleARN,
     ExternalID |-> <<role.ExternalID>>]

NewCredentials(cacheKey, baseSession, role) ==
    [cacheKey |-> cacheKey, baseSession |-> baseSession, RoleARN |-> role.RoleARN,
     ExternalID |-> IF role.ExternalID # "" THEN <<role.ExternalID>> ELSE <<>>]

Cached(key) == key \in DOMAIN awsSessions
Store(key, session) == [k \in DOMAIN awsSessions \cup {key} |->
                            IF k = key THEN session ELSE awsSessions[k]]
Count(key) == IF key \in DOMAIN attempts THEN attempts[key] ELSE 0

\* What the calls of GetAWSSession(region, roles) that are over have returned.
returned(region, roles) ==
    {ret[h] : h \in {g \in Goroutines : /\ pc[g] = "done"
                                        /\ call[g] = [region |-> region, roles |-> roles]}}

\* A call returns to its caller; its locals are gone.
Return(g, session, err) ==
    /\ pc' = [pc EXCEPT ![g] = "done"]
    /\ ret' = [ret EXCEPT ![g] = [session |-> session, err |-> err]]
    /\ local' = [local EXCEPT ![g] = [NoLocal EXCEPT !.roles = local[g].roles]]

\* GetAWSSession, lines 261-270: the base session is there, the key builder
\* is seeded with the region and the loop over the roles begins.
EnterLoop(g, session) ==
    /\ local' = [local EXCEPT ![g].session = session,
                              ![g].keyBuilder = NewAWSSessionCacheKeyBuilder(call[g].region)]
    /\ pc' = [pc EXCEPT ![g] = "loop"]

\* GetAWSSession, lines 254-259: validation, before any session is touched.
GetAWSSession_BaseFirst(g, region, roles) ==
    /\ pc[g] = "idle"
    /\ \A h \in Goroutines : h < g => pc[h] # "idle"
    /\ call' = [call EXCEPT ![g] = [region |-> region, roles |-> roles]]
    /\ prior' = [prior EXCEPT ![g] = returned(region, roles)]
    /\ LET v == checkAndSetAssumeRoles(region, roles)
       IN  /\ local' = [local EXCEPT ![g] = [NoLocal EXCEPT !.roles = v.roles]]
           /\ pc' = [pc EXCEPT ![g] = IF v.err # NoErr THEN "done" ELSE "getAWSSession"]
           /\ ret' = [ret EXCEPT ![g] = [session |-> Nil, err |-> v.err]]
    /\ awsSessions' = IF Cached(region) THEN awsSessions ELSE Store(region, nextSession)
    /\ nextSession' = IF Cached(region) THEN nextSession ELSE nextSession + 1
    /\ net' = [net EXCEPT ![g] = IF Cached(region) THEN 0 ELSE 1]
    /\ returnedBefore' = [returnedBefore EXCEPT ![g] = {h \in Goroutines : pc[h] = "done"}]
    /\ UNCHANGED <<mtx, attempts, failures, misses, logs, stsCalls>>

GetAWSSession(g, region, roles) ==
    /\ pc[g] = "idle"
    /\ \A h \in Goroutines : h < g => pc[h] # "idle"
    /\ call' = [call EXCEPT ![g] = [region |-> region, roles |-> roles]]
    /\ prior' = [prior EXCEPT ![g] = returned(region, roles)]
    /\ LET v == checkAndSetAssumeRoles(region, roles)
       IN  /\ local' = [local EXCEPT ![g] = [NoLocal EXCEPT !.roles = v.roles]]
           /\ pc' = [pc EXCEPT ![g] = IF v.err # NoErr THEN "done" ELSE "getAWSSession"]
           /\ ret' = [ret EXCEPT ![g] = [session |-> Nil, err |-> v.err]]
    /\ returnedBefore' = [returnedBefore EXCEPT ![g] = {h \in Goroutines : pc[h] = "done"}]
    /\ UNCHANGED <<awsSessions, mtx, nextSession, net, attempts, failures, misses, logs,
                   stsCalls>>

\* getAWSSession, lines 535-543: the read-locked lookup of the base session.
getAWSSession(g) ==
    /\ pc[g] = "getAWSSession"
    /\ mtx = 0
    /\ IF Cached(call[g].region)
       THEN /\ EnterLoop(g, awsSessions[call[g].region])
       ELSE /\ pc' = [pc EXCEPT ![g] = "initAWSSession"]
            /\ UNCHANGED local
    /\ UNCHANGED <<awsSessions, mtx, call, ret, nextSession, net, attempts, failures,
                   prior, misses, logs, returnedBefore, stsCalls>>

\* initAWSSession, lines 546-551: Lock and the second check.
initAWSSession_NoRecheck(g) ==
    /\ pc[g] = "initAWSSession"
    /\ mtx = 0
    /\ mtx' = g
    /\ logs' = logs \cup {RegionLine(call[g].region)}
    /\ pc' = [pc EXCEPT ![g] = "NewSessionWithOptions"]
    /\ net' = [net EXCEPT ![g] = @ + 1]
    /\ UNCHANGED <<awsSessions, call, local, ret, nextSession, attempts, failures, prior,
                   misses, returnedBefore, stsCalls>>

initAWSSession(g) ==
    /\ pc[g] = "initAWSSession"
    /\ mtx = 0
    /\ IF Cached(call[g].region)
       THEN /\ EnterLoop(g, awsSessions[call[g].region])
            /\ UNCHANGED <<mtx, net, logs>>
       ELSE /\ mtx' = g
            /\ logs' = logs \cup {RegionLine(call[g].region)}
            /\ pc' = [pc EXCEPT ![g] = "NewSessionWithOptions"]
            /\ net' = [net EXCEPT ![g] = @ + 1]
            /\ UNCHANGED local
    /\ UNCHANGED <<awsSessions, call, ret, nextSession, attempts, failures, prior, misses,
                   returnedBefore, stsCalls>>

\* initAWSSession, lines 552-562: the base session is built, stored and the
\* deferred Unlock runs; or building it fails and nothing is stored.
NewSessionWithOptions(g, ok) ==
    /\ pc[g] = "NewSessionWithOptions"
    /\ mtx' = 0
    /\ IF ok
       THEN /\ awsSessions' = Store(call[g].region, nextSession)
            /\ nextSession' = nextSession + 1
            /\ EnterLoop(g, nextSession)
            /\ UNCHANGED ret
       ELSE /\ Return(g, Nil, Err("NewSessionError", call[g].region, ""))
            /\ UNCHANGED <<awsSessions, nextSession>>
    /\ UNCHANGED <<call, net, attempts, failures, prior, misses, logs, returnedBefore, stsCalls>>

\* GetAWSSession, lines 265-268 and 279: the loop is over, the session is returned.
ReturnSession(g) ==
    /\ pc[g] = "loop"
    /\ local[g].i = Len(local[g].roles)
    /\ Return(g, local[g].session, NoErr)
    /\ UNCHANGED <<awsSessions, mtx, call, nextSession, net, attempts, failures,
                   prior, misses, logs, returnedBefore, stsCalls>>

\* GetAWSSession, lines 271-274, and getAWSSessionForRole, lines 565-573: the
\* key of the next prefix and its read-locked lookup.
getAWSSessionForRole_KeepSession(g) ==
    /\ pc[g] = "loop"
    /\ local[g].i < Len(local[g].roles)
    /\ mtx = 0
    /\ LET keyBuilder == AddRole(local[g].keyBuilder, local[g].roles[local[g].i + 1])
           cacheKey == String(keyBuilder)
       IN  IF Cached(cacheKey)
           THEN /\ local' = [local EXCEPT ![g].keyBuilder = keyBuilder,
                                          ![g].cacheKey = cacheKey,
                                          ![g].i = @ + 1]
                /\ UNCHANGED <<pc, misses>>
           ELSE /\ local' = [local EXCEPT ![g].keyBuilder = keyBuilder,
                                          ![g].cacheKey = cacheKey]
                /\ pc' = [pc EXCEPT ![g] = "initAWSSessionForRole"]
                /\ misses' = [misses EXCEPT ![g] = @ + 1]
    /\ UNCHANGED <<awsSessions, mtx, call, ret, nextSession, net, attempts, failures, prior,
                   logs, returnedBefore, stsCalls>>

getAWSSessionForRole(g) ==
    /\ pc[g] = "loop"
    /\ local[g].i < Len(local[g].roles)
    /\ mtx = 0
    /\ LET keyBuilder == AddRole(local[g].keyBuilder, local[g].roles[local[g].i + 1])
           cacheKey == String(keyBuilder)
       IN  IF Cached(cacheKey)
           THEN /\ local' = [local EXCEPT ![g].keyBuilder = keyBuilder,
                                          ![g].cacheKey = cacheKey,
                                          ![g].session = awsSessions[cacheKey],
                                          ![g].i = @ + 1]
                /\ UNCHANGED <<pc, misses>>
           ELSE /\ local' = [local EXCEPT ![g].keyBuilder = keyBuilder,
                                          ![g].cacheKey = cacheKey]
                /\ pc' = [pc EXCEPT ![g] = "initAWSSessionForRole"]
                /\ misses' = [misses EXCEPT ![g] = @ + 1]
    /\ UNCHANGED <<awsSessions, mtx, call, ret, nextSession, net, attempts, failures, prior,
                   logs, returnedBefore, stsCalls>>

\* initAWSSessionForRole, lines 576-581: Lock and the second check.
initAWSSessionForRole_NoRecheck(g) ==
    /\ pc[g] = "initAWSSessionForRole"
    /\ mtx = 0
    /\ mtx' = g
    /\ logs' = logs \cup {AssumedRoleLine(local[g].cacheKey)}
    /\ pc' = [pc EXCEPT ![g] = "GetWithContext"]
    /\ net' = [net EXCEPT ![g] = @ + 1]
    /\ attempts' = [k \in DOMAIN attempts \cup {local[g].cacheKey} |->
                       IF k = local[g].cacheKey THEN Count(k) + 1 ELSE attempts[k]]
    /\ stsCalls' = stsCalls \cup {NewCredentials(local[g].cacheKey, local[g].session,
                                                  local[g].roles[local[g].i + 1])}
    /\ UNCHANGED <<awsSessions, call, local, ret, nextSession, failures, prior, misses,
                   returnedBefore>>

initAWSSessionForRole(g) ==
    /\ pc[g] = "initAWSSessionForRole"
    /\ mtx = 0
    /\ IF Cached(local[g].cacheKey)
       THEN /\ local' = [local EXCEPT ![g].session = awsSessions[local[g].cacheKey],
                                      ![g].i = @ + 1]
            /\ pc' = [pc EXCEPT ![g] = "loop"]
            /\ UNCHANGED <<mtx, net, attempts, logs, stsCalls>>
       ELSE /\ mtx' = g
            /\ logs' = logs \cup {AssumedRoleLine(local[g].cacheKey)}
            /\ stsCalls' = stsCalls \cup
                               {NewCredentials(local[g].cacheKey, local[g].session,
                                               local[g].roles[local[g].i + 1])}
            /\ pc' = [pc EXCEPT ![g] = "GetWithContext"]
            /\ net' = [net EXCEPT ![g] = @ + 1]
            /\ attempts' = [k \in DOMAIN attempts \cup {local[g].cacheKey} |->
                               IF k = local[g].cacheKey THEN Count(k) + 1 ELSE attempts[k]]
            /\ UNCHANGED local
    /\ UNCHANGED <<awsSessions, call, ret, nextSession, failures, prior, misses,
                   returnedBefore>>

\* initAWSSessionForRole, lines 582-599: the credentials are probed with an
\* assume-role call; on success the role session is built and stored; the
\* deferred Unlock runs on every path.
GetWithContext_NoStore(g, outcome) ==
    /\ pc[g] = "GetWithContext"
    /\ mtx' = 0
    /\ IF outcome = "ok"
       THEN /\ nextSession' = nextSession + 1
            /\ local' = [local EXCEPT ![g].session = nextSession, ![g].i = @ + 1]
            /\ pc' = [pc EXCEPT ![g] = "loop"]
            /\ UNCHANGED <<ret, failures, awsSessions>>
       ELSE /\ Return(g, Nil, Err(outcome, local[g].cacheKey, ""))
            /\ failures' = failures + 1
            /\ UNCHANGED <<awsSessions, nextSession>>
    /\ UNCHANGED <<call, net, attempts, prior, misses, logs, returnedBefore, stsCalls>>

GetWithContext_CacheFailed(g, outcome) ==
    /\ pc[g] = "GetWithContext"
    /\ mtx' = 0
    /\ awsSessions' = Store(local[g].cacheKey, nextSession)
    /\ nextSession' = nextSession + 1
    /\ IF outcome = "ok"
       THEN /\ local' = [local EXCEPT ![g].session = nextSession, ![g].i = @ + 1]
            /\ pc' = [pc EXCEPT ![g] = "loop"]
            /\ UNCHANGED <<ret, failures>>
       ELSE /\ Return(g, Nil, Err(outcome, local[g].cacheKey, ""))
            /\ failures' = failures + 1
    /\ UNCHANGED <<call, net, attempts, prior, misses, logs, returnedBefore, stsCalls>>

GetWithContext_StoreLastOnly(g, outcome) ==
    /\ pc[g] = "GetWithContext"
    /\ mtx' = 0
    /\ IF outcome = "ok"
       THEN /\ awsSessions' = IF local[g].i + 1 = Len(local[g].roles)
                              THEN Store(local[g].cacheKey, nextSession)
                              ELSE awsSessions
            /\ nextSession' = nextSession + 1
            /\ local' = [local EXCEPT ![g].session = nextSession, ![g].i = @ + 1]
            /\ pc' = [pc EXCEPT ![g] = "loop"]
            /\ UNCHANGED <<ret, failures>>
       ELSE /\ Return(g, Nil, Err(outcome, local[g].cacheKey, ""))
            /\ failures' = failures + 1
            /\ UNCHANGED <<awsSessions, nextSession>>
    /\ UNCHANGED <<call, net, attempts, prior, misses, logs, returnedBefore, stsCalls>>

GetWithContext_CancelShared(g, outcome) ==
    /\ pc[g] = "GetWithContext"
    /\ mtx' = 0
    /\ IF outcome = "ok"
       THEN /\ awsSessions' = Store(local[g].cacheKey, nextSession)
            /\ nextSession' = nextSession + 1
            /\ local' = [local EXCEPT ![g].session = nextSession, ![g].i = @ + 1]
            /\ pc' = [pc EXCEPT ![g] = "loop"]
            /\ UNCHANGED <<ret, failures>>
       ELSE /\ LET failed == {g} \cup
                       {h \in Goroutines : /\ outcome = "RequestCanceled"
                                           /\ pc[h] = "initAWSSessionForRole"
                                           /\ local[h].cacheKey = local[g].cacheKey}
               IN  /\ pc' = [h \in Goroutines |-> IF h \in failed THEN "done" ELSE pc[h]]
                   /\ ret' = [h \in Goroutines |->
                                 IF h \in failed
                                 THEN [session |-> Nil,
                                       err |-> Err(outcome, local[g].cacheKey, "")]
                                 ELSE ret[h]]
                   /\ local' = [h \in Goroutines |->
                                   IF h \in failed
                                   THEN [NoLocal EXCEPT !.roles = local[h].roles]
                                   ELSE local[h]]
            /\ failures' = failures + 1
            /\ UNCHANGED <<awsSessions, nextSession>>
    /\ UNCHANGED <<call, net, attempts, prior, misses, logs, returnedBefore, stsCalls>>

GetWithContext_Rollback(g, outcome) ==
    /\ pc[g] = "GetWithContext"
    /\ mtx' = 0
    /\ IF outcome = "ok"
       THEN /\ awsSessions' = Store(local[g].cacheKey, nextSession)
            /\ nextSession' = nextSession + 1
            /\ local' = [local EXCEPT ![g].session = nextSession, ![g].i = @ + 1]
            /\ pc' = [pc EXCEPT ![g] = "loop"]
            /\ UNCHANGED <<ret, failures>>
       ELSE /\ Return(g, Nil, Err(outcome, local[g].cacheKey, ""))
            /\ failures' = failures + 1
            /\ awsSessions' = [k \in DOMAIN awsSessions \cap Regions |-> awsSessions[k]]
            /\ UNCHANGED nextSession
    /\ UNCHANGED <<call, net, attempts, prior, misses, logs, returnedBefore, stsCalls>>

GetWithContext_KeepLock(g, outcome) ==
    /\ pc[g] = "GetWithContext"
    /\ IF outcome = "ok"
       THEN /\ mtx' = 0
            /\ awsSessions' = Store(local[g].cacheKey, nextSession)
            /\ nextSession' = nextSession + 1
            /\ local' = [local EXCEPT ![g].session = nextSession, ![g].i = @ + 1]
            /\ pc' = [pc EXCEPT ![g] = "loop"]
            /\ UNCHANGED <<ret, failures>>
       ELSE /\ Return(g, Nil, Err(outcome, local[g].cacheKey, ""))
            /\ failures' = failures + 1
            /\ UNCHANGED <<mtx, awsSessions, nextSession>>
    /\ UNCHANGED <<call, net, attempts, prior, misses, logs, returnedBefore, stsCalls>>

GetWithContext(g, outcome) ==
    /\ pc[g] = "GetWithContext"
    /\ mtx' = 0
    /\ IF outcome = "ok"
       THEN /\ awsSessions' = Store(local[g].cacheKey, nextSession)
            /\ nextSession' = nextSession + 1
            /\ local' = [local EXCEPT ![g].session = nextSession, ![g].i = @ + 1]
            /\ pc' = [pc EXCEPT ![g] = "loop"]
            /\ UNCHANGED <<ret, failures>>
       ELSE /\ Return(g, Nil, Err(outcome, local[g].cacheKey, ""))
            /\ failures' = failures + 1
            /\ UNCHANGED <<awsSessions, nextSession>>
    /\ UNCHANGED <<call, net, attempts, prior, misses, logs, returnedBefore, stsCalls>>

(***************************************************************************)
(* cloudClients: the GCP IAM client, the Azure credential, the Azure MySQL *)
(* clients of the subscriptions, and Close.  A section between Lock() and  *)
(* the deferred Unlock() that waits for nothing outside the process is one *)
(* step, taken when no goroutine holds the lock.                           *)
(***************************************************************************)
Subscriptions == {"sub1", "sub2"}

NoClient == [op |-> "", subscription |-> "", cred |-> Nil]
NoSingletons == [instanceMetadata |-> Nil, gcpSQLAdmin |-> Nil, gcpGKE |-> Nil,
                 azureSubscriptionsClient |-> Nil]

\* A client object as it is built: its kind, the subscription it is for, the
\* credential it was built with, and how often it has been closed.
BuiltWith(kind, key, cred) == [kind |-> kind, key |-> key, cred |-> cred, closes |-> 0]
Built(kind, key) == BuiltWith(kind, key, Nil)
NewWith(kind, key, cred) ==
    [id \in DOMAIN instances \cup {nextClient} |->
        IF id = nextClient THEN BuiltWith(kind, key, cred) ELSE instances[id]]
New(kind, key) == NewWith(kind, key, Nil)

\* GetGCPIAMClient, lines 382-390: the read-locked lookup.
GetGCPIAMClient(g) ==
    /\ pc[g] = "idle"
    /\ \A h \in Goroutines : h < g => pc[h] # "idle"
    /\ mtx = 0
    /\ client' = [client EXCEPT ![g] = [NoClient EXCEPT !.op = "GetGCPIAMClient"]]
    /\ IF gcpIAM # Nil
       THEN Return(g, gcpIAM, NoErr)
       ELSE /\ pc' = [pc EXCEPT ![g] = "initGCPIAMClient"]
            /\ UNCHANGED <<ret, local>>
    /\ UNCHANGED <<awsSessions, mtx, call, nextSession, net, attempts, failures, prior,
                   misses, logs, gcpIAM, azureCredential, azureMySQLClients, nextClient,
                   instances, closeRet, returnedBefore, stsCalls, singletons>>

\* initGCPIAMClient, lines 602-615.
initGCPIAMClient(g, ok) ==
    /\ pc[g] = "initGCPIAMClient"
    /\ mtx = 0
    /\ IF gcpIAM # Nil
       THEN /\ Return(g, gcpIAM, NoErr)
            /\ UNCHANGED <<logs, net, gcpIAM, nextClient, instances>>
       ELSE /\ logs' = logs \cup {"Initializing GCP IAM client."}
            /\ net' = [net EXCEPT ![g] = @ + 1]
            /\ IF ok
               THEN /\ gcpIAM' = nextClient
                    /\ instances' = New("gcpIAM", "")
                    /\ nextClient' = nextClient + 1
                    /\ Return(g, nextClient, NoErr)
               ELSE /\ Return(g, Nil, Err("NewIamCredentialsClientError", "", ""))
                    /\ UNCHANGED <<gcpIAM, nextClient, instances>>
    /\ UNCHANGED <<awsSessions, mtx, call, nextSession, attempts, failures, prior, misses,
                   azureCredential, azureMySQLClients, client, closeRet, returnedBefore, stsCalls, singletons>>

\* GetAzureMySQLClient, lines 437-445: the read-locked lookup.
GetAzureMySQLClient(g, subscription) ==
    /\ pc[g] = "idle"
    /\ \A h \in Goroutines : h < g => pc[h] # "idle"
    /\ mtx = 0
    /\ client' = [client EXCEPT ![g] = [NoClient EXCEPT !.op = "GetAzureMySQLClient",
                                                        !.subscription = subscription]]
    /\ IF subscription \in DOMAIN azureMySQLClients
       THEN Return(g, azureMySQLClients[subscription], NoErr)
       ELSE /\ pc' = [pc EXCEPT ![g] = "GetAzureCredential"]
            /\ UNCHANGED <<ret, local>>
    /\ UNCHANGED <<awsSessions, mtx, call, nextSession, net, attempts, failures, prior,
                   misses, logs, gcpIAM, azureCredential, azureMySQLClients, nextClient,
                   instances, closeRet, returnedBefore, stsCalls, singletons>>

\* GetAzureCredential, lines 426-434, called from outside the broker: the
\* call begins.
CallGetAzureCredential(g) ==
    /\ pc[g] = "idle"
    /\ \A h \in Goroutines : h < g => pc[h] # "idle"
    /\ client' = [client EXCEPT ![g] = [NoClient EXCEPT !.op = "GetAzureCredential"]]
    /\ pc' = [pc EXCEPT ![g] = "GetAzureCredential"]
    /\ UNCHANGED <<awsSessions, mtx, call, local, ret, nextSession, net, attempts, failures,
                   prior, misses, logs, gcpIAM, azureCredential, azureMySQLClients,
                   nextClient, instances, closeRet, returnedBefore, stsCalls, singletons>>

\* Where a goroutine goes on with the credential: the caller of
\* GetAzureCredential has its result; initAzureMySQLClient (line 665) and
\* initAzureSubscriptionsClient (line 712) go on to their own Lock.
GotCredential(g, cred) ==
    /\ client' = [client EXCEPT ![g].cred = cred]
    /\ IF client[g].op = "GetAzureCredential"
       THEN Return(g, cred, NoErr)
       ELSE /\ pc' = [pc EXCEPT ![g] =
                         IF client[g].op = "GetAzureSubscriptionClient"
                         THEN "initAzureSubscriptionsClient" ELSE "initAzureMySQLClient"]
            /\ UNCHANGED <<ret, local>>

\* GetAzureCredential, lines 426-434: the read-locked lookup of the credential.
GetAzureCredential(g) ==
    /\ pc[g] = "GetAzureCredential"
    /\ mtx = 0
    /\ IF azureCredential # Nil
       THEN GotCredential(g, azureCredential)
       ELSE /\ pc' = [pc EXCEPT ![g] = "initAzureCredential"]
            /\ UNCHANGED <<client, ret, local>>
    /\ UNCHANGED <<awsSessions, mtx, call, nextSession, net, attempts, failures,
                   prior, misses, logs, gcpIAM, azureCredential, azureMySQLClients,
                   nextClient, instances, closeRet, returnedBefore, stsCalls, singletons>>

\* initAzureCredential, lines 647-662, and the error check of its callers
\* (lines 666-668, 713-715).
initAzureCredential_NoRecheck(g, ok) ==
    /\ pc[g] = "initAzureCredential"
    /\ mtx = 0
    /\ logs' = logs \cup {"Initializing Azure default credential chain."}
    /\ IF ok
       THEN /\ azureCredential' = nextClient
            /\ instances' = New("azureCredential", "")
            /\ nextClient' = nextClient + 1
            /\ GotCredential(g, nextClient)
       ELSE /\ Return(g, Nil, Err("NewDefaultAzureCredentialError", "", ""))
            /\ UNCHANGED <<azureCredential, nextClient, instances, client>>
    /\ UNCHANGED <<awsSessions, mtx, call, nextSession, net, attempts, failures, prior,
                   misses, gcpIAM, azureMySQLClients, closeRet, returnedBefore, stsCalls,
                   singletons>>

initAzureCredential(g, ok) ==
    /\ pc[g] = "initAzureCredential"
    /\ mtx = 0
    /\ IF azureCredential # Nil
       THEN /\ GotCredential(g, azureCredential)
            /\ UNCHANGED <<logs, azureCredential, nextClient, instances>>
       ELSE /\ logs' = logs \cup {"Initializing Azure default credential chain."}
            /\ IF ok
               THEN /\ azureCredential' = nextClient
                    /\ instances' = New("azureCredential", "")
                    /\ nextClient' = nextClient + 1
                    /\ GotCredential(g, nextClient)
               ELSE /\ Return(g, Nil, Err("NewDefaultAzureCredentialError", "", ""))
                    /\ UNCHANGED <<azureCredential, nextClient, instances, client>>
    /\ UNCHANGED <<awsSessions, mtx, call, nextSession, net, attempts, failures, prior,
                   misses, gcpIAM, azureMySQLClients, closeRet, returnedBefore, stsCalls,
                   singletons>>

\* initAzureMySQLClient, lines 670-685.
initAzureMySQLClient_NoRecheck(g, ok) ==
    /\ pc[g] = "initAzureMySQLClient"
    /\ mtx = 0
    /\ logs' = logs \cup {"Initializing Azure MySQL servers client."}
    /\ IF ok
       THEN /\ azureMySQLClients' =
                   [k \in DOMAIN azureMySQLClients \cup {client[g].subscription} |->
                       IF k = client[g].subscription THEN nextClient
                       ELSE azureMySQLClients[k]]
            /\ instances' = NewWith("azureMySQL", client[g].subscription, client[g].cred)
            /\ nextClient' = nextClient + 1
            /\ Return(g, nextClient, NoErr)
       ELSE /\ Return(g, Nil, Err("NewServersClientError", client[g].subscription, ""))
            /\ UNCHANGED <<azureMySQLClients, nextClient, instances>>
    /\ UNCHANGED <<awsSessions, mtx, call, nextSession, net, attempts, failures, prior,
                   misses, gcpIAM, azureCredential, client, closeRet, returnedBefore, stsCalls, singletons>>

initAzureMySQLClient(g, ok) ==
    /\ pc[g] = "initAzureMySQLClient"
    /\ mtx = 0
    /\ IF client[g].subscription \in DOMAIN azureMySQLClients
       THEN /\ Return(g, azureMySQLClients[client[g].subscription], NoErr)
            /\ UNCHANGED <<logs, azureMySQLClients, nextClient, instances>>
       ELSE /\ logs' = logs \cup {"Initializing Azure MySQL servers client."}
            /\ IF ok
               THEN /\ azureMySQLClients' =
                           [k \in DOMAIN azureMySQLClients \cup {client[g].subscription} |->
                               IF k = client[g].subscription THEN nextClient
                               ELSE azureMySQLClients[k]]
                    /\ instances' = NewWith("azureMySQL", client[g].subscription, client[g].cred)
                    /\ nextClient' = nextClient + 1
                    /\ Return(g, nextClient, NoErr)
               ELSE /\ Return(g, Nil, Err("NewServersClientError", client[g].subscription, ""))
                    /\ UNCHANGED <<azureMySQLClients, nextClient, instances>>
    /\ UNCHANGED <<awsSessions, mtx, call, nextSession, net, attempts, failures, prior,
                   misses, gcpIAM, azureCredential, client, closeRet, returnedBefore, stsCalls, singletons>>

\* The getter of a client the broker keeps one of, as lines 393-401: the
\* read-locked lookup of the field; on a miss the goroutine goes on to at.
GetClient(g, op, field, at) ==
    /\ pc[g] = "idle"
    /\ \A h \in Goroutines : h < g => pc[h] # "idle"
    /\ mtx = 0
    /\ client' = [client EXCEPT ![g] = [NoClient EXCEPT !.op = op]]
    /\ IF singletons[field] # Nil
       THEN Return(g, singletons[field], NoErr)
       ELSE /\ pc' = [pc EXCEPT ![g] = at]
            /\ UNCHANGED <<ret, local>>
    /\ UNCHANGED <<awsSessions, mtx, call, nextSession, net, attempts, failures, prior,
                   misses, logs, gcpIAM, azureCredential, azureMySQLClients, nextClient,
                   instances, closeRet, returnedBefore, stsCalls, singletons>>

\* The constructor of such a client with the second check left out.
initClient_NoRecheck(g, field, at, line, failure, ok) ==
    /\ pc[g] = at
    /\ mtx = 0
    /\ logs' = logs \cup {line}
    /\ net' = [net EXCEPT ![g] = @ + 1]
    /\ IF ok
       THEN /\ singletons' = [singletons EXCEPT ![field] = nextClient]
            /\ instances' = New(field, "")
            /\ nextClient' = nextClient + 1
            /\ Return(g, nextClient, NoErr)
       ELSE /\ Return(g, Nil, Err(failure, "", ""))
            /\ UNCHANGED <<singletons, nextClient, instances>>
    /\ UNCHANGED <<awsSessions, mtx, call, nextSession, attempts, failures, prior, misses,
                   gcpIAM, azureCredential, azureMySQLClients, client, closeRet,
                   returnedBefore, stsCalls>>

\* The constructor of such a client, as lines 617-630: Lock, the second
\* check, the log line, the construction, and the store when it succeeded.
initClient(g, field, at, line, failure, ok) ==
    /\ pc[g] = at
    /\ mtx = 0
    /\ IF singletons[field] # Nil
       THEN /\ Return(g, singletons[field], NoErr)
            /\ UNCHANGED <<logs, net, singletons, nextClient, instances>>
       ELSE /\ logs' = logs \cup {line}
            /\ net' = [net EXCEPT ![g] = @ + 1]
            /\ IF ok
               THEN /\ singletons' = [singletons EXCEPT ![field] = nextClient]
                    /\ instances' = New(field, "")
                    /\ nextClient' = nextClient + 1
                    /\ Return(g, nextClient, NoErr)
               ELSE /\ Return(g, Nil, Err(failure, "", ""))
                    /\ UNCHANGED <<singletons, nextClient, instances>>
    /\ UNCHANGED <<awsSessions, mtx, call, nextSession, attempts, failures, prior, misses,
                   gcpIAM, azureCredential, azureMySQLClients, client, closeRet,
                   returnedBefore, stsCalls>>

\* GetGCPSQLAdminClient, lines 393-401, and initGCPSQLAdminClient, lines 617-630.
GetGCPSQLAdminClient(g) ==
    GetClient(g, "GetGCPSQLAdminClient", "gcpSQLAdmin", "initGCPSQLAdminClient")
initGCPSQLAdminClient(g, ok) ==
    initClient(g, "gcpSQLAdmin", "initGCPSQLAdminClient",
               "Initializing GCP Cloud SQL Admin client.", "NewSQLAdminClientError", ok)

\* GetInstanceMetadataClient, lines 404-412, and initInstanceMetadata, lines
\* 736-750.
GetInstanceMetadataClient(g) ==
    GetClient(g, "GetInstanceMetadataClient", "instanceMetadata", "initInstanceMetadata")
initInstanceMetadata_NoRecheck(g, ok) ==
    initClient_NoRecheck(g, "instanceMetadata", "initInstanceMetadata",
                         "Initializing instance metadata client.",
                         "DiscoverInstanceMetadataError", ok)
initInstanceMetadata(g, ok) ==
    initClient(g, "instanceMetadata", "initInstanceMetadata",
               "Initializing instance metadata client.", "DiscoverInstanceMetadataError", ok)

\* GetGCPGKEClient, lines 415-423, and initGCPGKEClient, lines 632-645.
GetGCPGKEClient(g) ==
    GetClient(g, "GetGCPGKEClient", "gcpGKE", "initGCPGKEClient")
initGCPGKEClient(g, ok) ==
    initClient(g, "gcpGKE", "initGCPGKEClient", "Initializing GCP Cloud GKE client.",
               "NewGKEClientError", ok)

\* GetAzureSubscriptionClient, lines 459-467; on a miss
\* initAzureSubscriptionsClient first asks for the credential (line 712).
GetAzureSubscriptionClient(g) ==
    GetClient(g, "GetAzureSubscriptionClient", "azureSubscriptionsClient",
              "GetAzureCredential")
\* initAzureSubscriptionsClient, lines 717-733.
initAzureSubscriptionsClient(g, ok) ==
    initClient(g, "azureSubscriptionsClient", "initAzureSubscriptionsClient",
               "Initializing Azure subscriptions client.", "NewSubscriptionsClientError", ok)

\* Close, lines 523-532: the GCP IAM client, when there is one, is closed and
\* the reference to it is dropped; ok tells whether closing it succeeded.
Close_KeepRef(ok) ==
    /\ mtx = 0
    /\ Len(closeRet) < MaxCloses
    /\ IF gcpIAM # Nil
       THEN /\ instances' = [instances EXCEPT ![gcpIAM].closes = @ + 1]
            /\ gcpIAM' = gcpIAM
            /\ closeRet' = Append(closeRet,
                                  [closed |-> gcpIAM, at |-> pc,
                                   err |-> IF ok THEN NoErr ELSE Err("CloseError", "", "")])
       ELSE /\ closeRet' = Append(closeRet, [closed |-> Nil, at |-> pc, err |-> NoErr])
            /\ UNCHANGED <<instances, gcpIAM>>
    /\ UNCHANGED <<awsSessions, mtx, pc, call, local, ret, nextSession, net, attempts,
                   failures, prior, misses, logs, azureCredential, azureMySQLClients,
                   client, nextClient, returnedBefore, stsCalls, singletons>>

Close_DropSessions(ok) ==
    /\ mtx = 0
    /\ Len(closeRet) < MaxCloses
    /\ IF gcpIAM # Nil
       THEN /\ instances' = [instances EXCEPT ![gcpIAM].closes = @ + 1]
            /\ gcpIAM' = Nil
            /\ closeRet' = Append(closeRet,
                                  [closed |-> gcpIAM, at |-> pc,
                                   err |-> IF ok THEN NoErr ELSE Err("CloseError", "", "")])
       ELSE /\ closeRet' = Append(closeRet, [closed |-> Nil, at |-> pc, err |-> NoErr])
            /\ UNCHANGED <<instances, gcpIAM>>
    /\ awsSessions' = <<>>
    /\ UNCHANGED <<mtx, pc, call, local, ret, nextSession, net, attempts,
                   failures, prior, misses, logs, azureCredential, azureMySQLClients,
                   client, nextClient, returnedBefore, stsCalls, singletons>>

Close(ok) ==
    /\ mtx = 0
    /\ Len(closeRet) < MaxCloses
    /\ IF gcpIAM # Nil
       THEN /\ instances' = [instances EXCEPT ![gcpIAM].closes = @ + 1]
            /\ gcpIAM' = Nil
            /\ closeRet' = Append(closeRet,
                                  [closed |-> gcpIAM, at |-> pc,
                                   err |-> IF ok THEN NoErr ELSE Err("CloseError", "", "")])
       ELSE /\ closeRet' = Append(closeRet, [closed |-> Nil, at |-> pc, err |-> NoErr])
            /\ UNCHANGED <<instances, gcpIAM>>
    /\ UNCHANGED <<awsSessions, mtx, pc, call, local, ret, nextSession, net, attempts,
                   failures, prior, misses, logs, azureCredential, azureMySQLClients,
                   client, nextClient, returnedBefore, stsCalls, singletons>>

(***************************************************************************)
(* lib/utils/aws/credentials.go: CachedCredentialsGetterConfig and the     *)
(* cached credentials getter.  Durations and the clock are in seconds.     *)
(***************************************************************************)
Minute == 60

NoGetter == "nil"
DefaultGetter == "credentialsGettter"
NoConfig == [Getter |-> NoGetter, CacheTTL |-> 0]

\* GetCredentialsRequest, and the requests made: one request and, for every
\* field, a request that differs from it in that field alone.
GetCredentialsRequest(provider, expiry, sessionName, roleARN, externalID) ==
    [Provider |-> provider, Expiry |-> expiry, SessionName |-> sessionName,
     RoleARN |-> roleARN, ExternalID |-> externalID]
BaseRequest == GetCredentialsRequest("session1", 3600, "alice", RoleA, "")
CredRequests == {BaseRequest,
                 [BaseRequest EXCEPT !.Provider = "session2"],
                 [BaseRequest EXCEPT !.Expiry = 7200],
                 [BaseRequest EXCEPT !.SessionName = "bob"],
                 [BaseRequest EXCEPT !.RoleARN = RoleB],
                 [BaseRequest EXCEPT !.ExternalID = "x"]}

NoCredentials == [id |-> 0, request |-> BaseRequest]

\* CachedCredentialsGetterConfig.SetDefaults.
SetDefaults_ZeroKept(c) ==
    [Getter |-> IF c.Getter = NoGetter THEN DefaultGetter ELSE c.Getter,
     CacheTTL |-> IF c.CacheTTL < 0 THEN Minute ELSE c.CacheTTL]

SetDefaults(c) ==
    [Getter |-> IF c.Getter = NoGetter THEN DefaultGetter ELSE c.Getter,
     CacheTTL |-> IF c.CacheTTL <= 0 THEN Minute ELSE c.CacheTTL]

\* utils.FnCache: an entry is served until its TTL, counted from the time it
\* was loaded, has run out.
NeedsReload(cache, key, ttl, t) ==
    \/ key \notin DOMAIN cache
    \/ t > cache[key].t + ttl

\* The key under which Get caches: the request itself.
CacheKey_RoleARNOnly(request) == request.RoleARN

CacheKey(request) == request

\* CredentialsGetter.Get of the configured getter: credentials for the
\* request; the default getter returns no error.
GetterGet(getter, request, ok) ==
    IF ok \/ getter = DefaultGetter
    THEN [v |-> [id |-> nextCred, request |-> request], e |-> NoErr]
    ELSE [v |-> NoCredentials, e |-> Err("GetterError", request.RoleARN, "")]

Calls(request) == IF request \in DOMAIN getterCalls THEN getterCalls[request] ELSE 0

\* NewCachedCredentialsGetter, lines 91-105.
NewCachedCredentialsGetter ==
    /\ config = NoConfig
    /\ config' = SetDefaults(cfgIn)
    /\ UNCHANGED <<cfgIn, fnCache, now, nextCred, getterCalls, gets>>

\* cachedCredentialsGetter.Get, lines 108-114, made elapsed seconds after the
\* call before it; ok tells whether the underlying getter, if it is called,
\* succeeds.
Get_Uncached(request, elapsed, ok) ==
    /\ config # NoConfig
    /\ Len(gets) < MaxGets
    /\ now' = now + elapsed
    /\ LET r == GetterGet(config.Getter, request, ok)
       IN  /\ fnCache' = [k \in DOMAIN fnCache \cup {CacheKey(request)} |->
                             IF k = CacheKey(request)
                             THEN [v |-> r.v, e |-> r.e, t |-> now']
                             ELSE fnCache[k]]
           /\ nextCred' = nextCred + 1
           /\ getterCalls' = [q \in DOMAIN getterCalls \cup {request} |->
                                 IF q = request THEN Calls(q) + 1 ELSE getterCalls[q]]
           /\ gets' = Append(gets, [request |-> request, at |-> now', fetched |-> TRUE,
                                    calls |-> Calls(request) + 1,
                                    credentials |-> r.v, err |-> r.e])
    /\ UNCHANGED <<cfgIn, config>>

Get(request, elapsed, ok) ==
    /\ config # NoConfig
    /\ Len(gets) < MaxGets
    /\ now' = now + elapsed
    /\ IF NeedsReload(fnCache, CacheKey(request), config.CacheTTL, now')
       THEN LET r == GetterGet(config.Getter, request, ok)
            IN  /\ fnCache' = [k \in DOMAIN fnCache \cup {CacheKey(request)} |->
                                  IF k = CacheKey(request)
                                  THEN [v |-> r.v, e |-> r.e, t |-> now']
                                  ELSE fnCache[k]]
                /\ nextCred' = nextCred + 1
                /\ getterCalls' = [q \in DOMAIN getterCalls \cup {request} |->
                                      IF q = request THEN Calls(q) + 1
                                      ELSE getterCalls[q]]
                /\ gets' = Append(gets, [request |-> request, at |-> now',
                                         fetched |-> TRUE, calls |-> Calls(request) + 1,
                                         credentials |-> r.v, err |-> r.e])
       ELSE /\ gets' = Append(gets, [request |-> request, at |-> now', fetched |-> FALSE,
                                     calls |-> Calls(request),
                                     credentials |-> fnCache[CacheKey(request)].v,
                                     err |-> fnCache[CacheKey(request)].e])
            /\ UNCHANGED <<fnCache, nextCred, getterCalls>>
    /\ UNCHANGED <<cfgIn, config>>

GetterInit(c) ==
    /\ cfgIn = c
    /\ config = NoConfig
    /\ fnCache = <<>>
    /\ now = 0
    /\ nextCred = 1
    /\ getterCalls = <<>>
    /\ gets = <<>>

(***************************************************************************)
(* TestCloudClients: the test double of the broker.  Its sessions are the  *)
(* fixtures of the map AWSAssumeRoleSessions, which the tests fill with    *)
(* makeAWSSession.                                                         *)
(***************************************************************************)
\* The session TestCloudClients.getAWSSession builds from static credentials,
\* and the session makeAWSSession builds for a fixture.
StaticSession == 1
FixtureSession == 2

\* helpers_test.go, makeAWSSession: the key of the roles as they are given,
\* and the fixture session.
makeAWSSession(region, roles) ==
    [key |-> String(KeyOver(NewAWSSessionCacheKeyBuilder(region), roles, 1)),
     session |-> FixtureSession]

\* TestCloudClients.GetAWSSession with the key of the chain as the caller
\* gave it.
TestGetAWSSession_KeyOfGiven(c, region, roles0) ==
    LET v == checkAndSetAssumeRoles(region, roles0)
        roles == v.roles
        key == String(KeyOver(NewAWSSessionCacheKeyBuilder(region), roles0, 1))
    IN  IF v.err # NoErr THEN [session |-> Nil, err |-> v.err, key |-> "", net |-> 0]
        ELSE IF Len(roles) = 0
        THEN IF c.RequireRoles
             THEN [session |-> Nil,
                   err |-> Err("BadParameter", "test cloud clients requires roles", ""),
                   key |-> "", net |-> 0]
             ELSE [session |-> StaticSession, err |-> NoErr, key |-> "", net |-> 0]
        ELSE IF key \notin DOMAIN c.AWSAssumeRoleSessions
        THEN [session |-> Nil, err |-> Err("NotFound", key, ""), key |-> key, net |-> 0]
        ELSE [session |-> c.AWSAssumeRoleSessions[key], err |-> NoErr, key |-> key,
              net |-> 0]

\* TestCloudClients.GetAWSSession: the session, the error, the key looked up
\* and the network calls made.
TestGetAWSSession(c, region, roles0) ==
    LET v == checkAndSetAssumeRoles(region, roles0)
        roles == v.roles
        key == String(KeyOver(NewAWSSessionCacheKeyBuilder(region), roles, 1))
    IN  IF v.err # NoErr THEN [session |-> Nil, err |-> v.err, key |-> "", net |-> 0]
        ELSE IF Len(roles) = 0
        THEN IF c.RequireRoles
             THEN [session |-> Nil,
                   err |-> Err("BadParameter", "test cloud clients requires roles", ""),
                   key |-> "", net |-> 0]
             ELSE [session |-> StaticSession, err |-> NoErr, key |-> "", net |-> 0]
        ELSE IF key \notin DOMAIN c.AWSAssumeRoleSessions
        THEN [session |-> Nil, err |-> Err("NotFound", key, ""), key |-> key, net |-> 0]
        ELSE [session |-> c.AWSAssumeRoleSessions[key], err |-> NoErr, key |-> key,
              net |-> 0]

BrokerInit ==
    /\ awsSessions = <<>>
    /\ mtx = 0
    /\ pc = [g \in Goroutines |-> "idle"]
    /\ call = [g \in Goroutines |-> NoCall]
    /\ local = [g \in Goroutines |-> NoLocal]
    /\ ret = [g \in Goroutines |-> NoRet]
    /\ nextSession = 1
    /\ net = [g \in Goroutines |-> 0]
    /\ attempts = <<>>
    /\ failures = 0
    /\ prior = [g \in Goroutines |-> {}]
    /\ misses = [g \in Goroutines |-> 0]
    /\ logs = {}
    /\ returnedBefore = [g \in Goroutines |-> {}]
    /\ stsCalls = {}
    /\ gcpIAM = Nil
    /\ azureCredential = Nil
    /\ azureMySQLClients = <<>>
    /\ client = [g \in Goroutines |-> NoClient]
    /\ nextClient = 1
    /\ instances = <<>>
    /\ singletons = NoSingletons
    /\ closeRet = <<>>

NoValIn == [region |-> "", roles |-> <<>>]
NoValOut == [done |-> FALSE, err |-> NoErr, roles |-> <<>>]
NoTestIn == [RequireRoles |-> FALSE, AWSAssumeRoleSessions |-> <<>>,
             region |-> "", roles |-> <<>>]
NoTestOut == [done |-> FALSE, session |-> Nil, err |-> NoErr, key |-> "", net |-> 0]

Init ==
    /\ BrokerInit
    /\ GetterInit(NoConfig)
    /\ vIn = NoValIn
    /\ vOut = NoValOut
    /\ kIn = <<>>
    /\ kOut = <<>>
    /\ tIn = NoTestIn
    /\ tOut = NoTestOut

Next ==
    \/ \E g \in Goroutines, region \in Regions, roles \in BrokerChains :
          GetAWSSession(g, region, roles) /\ UNCHANGED <<clientVars, valVars, keyVars, credVars, testVars>>
    \/ \E g \in Goroutines : getAWSSession(g) /\ UNCHANGED <<clientVars, valVars, keyVars, credVars, testVars>>
    \/ \E g \in Goroutines : initAWSSession(g) /\ UNCHANGED <<clientVars, valVars, keyVars, credVars, testVars>>
    \/ \E g \in Goroutines, ok \in BOOLEAN :
          NewSessionWithOptions(g, ok) /\ UNCHANGED <<clientVars, valVars, keyVars, credVars, testVars>>
    \/ \E g \in Goroutines : ReturnSession(g) /\ UNCHANGED <<clientVars, valVars, keyVars, credVars, testVars>>
    \/ \E g \in Goroutines : getAWSSessionForRole(g) /\ UNCHANGED <<clientVars, valVars, keyVars, credVars, testVars>>
    \/ \E g \in Goroutines : initAWSSessionForRole(g) /\ UNCHANGED <<clientVars, valVars, keyVars, credVars, testVars>>
    \/ \E g \in Goroutines, outcome \in ProbeOutcomes :
          GetWithContext(g, outcome) /\ UNCHANGED <<clientVars, valVars, keyVars, credVars, testVars>>

Spec == Init /\ [][Next]_vars

(***************************************************************************)
(* The broker with its clients and Close: the goroutines call              *)
(* GetAWSSession, GetGCPIAMClient or GetAzureMySQLClient, and Close is     *)
(* called at most MaxCloses times, at any moment.                          *)
(***************************************************************************)
CloseRegions == {"us-east-1"}
CloseChains == SeqsUpTo({AssumeRole(RoleA, "")}, MaxHops)

CloseNext ==
    \/ \E g \in Goroutines, region \in CloseRegions, roles \in CloseChains :
          GetAWSSession(g, region, roles) /\ UNCHANGED <<clientVars, valVars, keyVars, credVars, testVars>>
    \/ \E g \in Goroutines : getAWSSession(g) /\ UNCHANGED <<clientVars, valVars, keyVars, credVars, testVars>>
    \/ \E g \in Goroutines : initAWSSession(g) /\ UNCHANGED <<clientVars, valVars, keyVars, credVars, testVars>>
    \/ \E g \in Goroutines, ok \in BOOLEAN :
          NewSessionWithOptions(g, ok) /\ UNCHANGED <<clientVars, valVars, keyVars, credVars, testVars>>
    \/ \E g \in Goroutines : ReturnSession(g) /\ UNCHANGED <<clientVars, valVars, keyVars, credVars, testVars>>
    \/ \E g \in Goroutines :
          getAWSSessionForRole(g) /\ UNCHANGED <<clientVars, valVars, keyVars, credVars, testVars>>
    \/ \E g \in Goroutines :
          initAWSSessionForRole(g) /\ UNCHANGED <<clientVars, valVars, keyVars, credVars, testVars>>
    \/ \E g \in Goroutines, outcome \in ProbeOutcomes :
          GetWithContext(g, outcome) /\ UNCHANGED <<clientVars, valVars, keyVars, credVars, testVars>>
    \/ \E g \in Goroutines : GetGCPIAMClient(g) /\ UNCHANGED <<valVars, keyVars, credVars, testVars>>
    \/ \E g \in Goroutines, ok \in BOOLEAN :
          initGCPIAMClient(g, ok) /\ UNCHANGED <<valVars, keyVars, credVars, testVars>>
    \/ \E g \in Goroutines, subscription \in Subscriptions :
          GetAzureMySQLClient(g, subscription) /\ UNCHANGED <<valVars, keyVars, credVars, testVars>>
    \/ \E g \in Goroutines : GetAzureCredential(g) /\ UNCHANGED <<valVars, keyVars, credVars, testVars>>
    \/ \E g \in Goroutines, ok \in BOOLEAN :
          initAzureCredential(g, ok) /\ UNCHANGED <<valVars, keyVars, credVars, testVars>>
    \/ \E g \in Goroutines, ok \in BOOLEAN :
          initAzureMySQLClient(g, ok) /\ UNCHANGED <<valVars, keyVars, credVars, testVars>>
    \/ \E ok \in BOOLEAN : Close(ok) /\ UNCHANGED <<valVars, keyVars, credVars, testVars>>

CloseSpec == Init /\ [][CloseNext]_vars

\* The calls of CloseNext for one subscription, with the assume-role call
\* answering or being refused.
LiveOutcomes == {"ok", "AccessDenied"}
LiveSubscriptions == {"sub1"}

\* What goroutine g does next in a call it has begun, whatever its network
\* calls return.  The Go scheduler runs every runnable goroutine, a
\* sync.RWMutex that is free is handed to a goroutine waiting for it, and the
\* network calls are taken to return: each goroutine that can go on does.
Proceed(g) ==
    \/ /\ \/ getAWSSession(g)
          \/ initAWSSession(g)
          \/ \E ok \in BOOLEAN : NewSessionWithOptions(g, ok)
          \/ ReturnSession(g)
          \/ getAWSSessionForRole(g)
          \/ initAWSSessionForRole(g)
          \/ \E outcome \in LiveOutcomes : GetWithContext(g, outcome)
       /\ UNCHANGED <<clientVars, valVars, keyVars, credVars, testVars>>
    \/ /\ \/ \E ok \in BOOLEAN : initGCPIAMClient(g, ok)
          \/ GetAzureCredential(g)
          \/ \E ok \in BOOLEAN : initAzureCredential(g, ok)
          \/ \E ok \in BOOLEAN : initAzureMySQLClient(g, ok)
       /\ UNCHANGED <<valVars, keyVars, credVars, testVars>>

LiveNext ==
    \/ \E g \in Goroutines, region \in CloseRegions, roles \in CloseChains :
          GetAWSSession(g, region, roles) /\ UNCHANGED <<clientVars, valVars, keyVars, credVars, testVars>>
    \/ \E g \in Goroutines : getAWSSession(g) /\ UNCHANGED <<clientVars, valVars, keyVars, credVars, testVars>>
    \/ \E g \in Goroutines : initAWSSession(g) /\ UNCHANGED <<clientVars, valVars, keyVars, credVars, testVars>>
    \/ \E g \in Goroutines, ok \in BOOLEAN :
          NewSessionWithOptions(g, ok) /\ UNCHANGED <<clientVars, valVars, keyVars, credVars, testVars>>
    \/ \E g \in Goroutines : ReturnSession(g) /\ UNCHANGED <<clientVars, valVars, keyVars, credVars, testVars>>
    \/ \E g \in Goroutines :
          getAWSSessionForRole(g) /\ UNCHANGED <<clientVars, valVars, keyVars, credVars, testVars>>
    \/ \E g \in Goroutines :
          initAWSSessionForRole(g) /\ UNCHANGED <<clientVars, valVars, keyVars, credVars, testVars>>
    \/ \E g \in Goroutines, outcome \in LiveOutcomes :
          GetWithContext(g, outcome) /\ UNCHANGED <<clientVars, valVars, keyVars, credVars, testVars>>
    \/ \E g \in Goroutines : GetGCPIAMClient(g) /\ UNCHANGED <<valVars, keyVars, credVars, testVars>>
    \/ \E g \in Goroutines, ok \in BOOLEAN :
          initGCPIAMClient(g, ok) /\ UNCHANGED <<valVars, keyVars, credVars, testVars>>
    \/ \E g \in Goroutines, subscription \in LiveSubscriptions :
          GetAzureMySQLClient(g, subscription) /\ UNCHANGED <<valVars, keyVars, credVars, testVars>>
    \/ \E g \in Goroutines : GetAzureCredential(g) /\ UNCHANGED <<valVars, keyVars, credVars, testVars>>
    \/ \E g \in Goroutines, ok \in BOOLEAN :
          initAzureCredential(g, ok) /\ UNCHANGED <<valVars, keyVars, credVars, testVars>>
    \/ \E g \in Goroutines, ok \in BOOLEAN :
          initAzureMySQLClient(g, ok) /\ UNCHANGED <<valVars, keyVars, credVars, testVars>>
    \/ \E ok \in BOOLEAN : Close(ok) /\ UNCHANGED <<valVars, keyVars, credVars, testVars>>

LiveSpec == Init /\ [][LiveNext]_vars /\ \A g \in Goroutines : WF_vars(Proceed(g))

(***************************************************************************)
(* The Azure MySQL clients on their own: every goroutine asks for the      *)
(* client of a subscription.                                               *)
(***************************************************************************)
AzureNext ==
    \/ \E g \in Goroutines, subscription \in Subscriptions :
          GetAzureMySQLClient(g, subscription) /\ UNCHANGED <<valVars, keyVars, credVars, testVars>>
    \/ \E g \in Goroutines : GetAzureCredential(g) /\ UNCHANGED <<valVars, keyVars, credVars, testVars>>
    \/ \E g \in Goroutines, ok \in BOOLEAN :
          initAzureCredential(g, ok) /\ UNCHANGED <<valVars, keyVars, credVars, testVars>>
    \/ \E g \in Goroutines, ok \in BOOLEAN :
          initAzureMySQLClient(g, ok) /\ UNCHANGED <<valVars, keyVars, credVars, testVars>>

AzureSpec == Init /\ [][AzureNext]_vars

(***************************************************************************)
(* The clients the broker keeps one of: every goroutine asks for the       *)
(* instance metadata client, a GCP client, the Azure credential or the     *)
(* Azure subscriptions client, and Close is called at most MaxCloses       *)
(* times.                                                                  *)
(***************************************************************************)
SingletonNext ==
    \/ \E g \in Goroutines : GetGCPIAMClient(g) /\ UNCHANGED <<valVars, keyVars, credVars, testVars>>
    \/ \E g \in Goroutines, ok \in BOOLEAN :
          initGCPIAMClient(g, ok) /\ UNCHANGED <<valVars, keyVars, credVars, testVars>>
    \/ \E g \in Goroutines :
          GetGCPSQLAdminClient(g) /\ UNCHANGED <<valVars, keyVars, credVars, testVars>>
    \/ \E g \in Goroutines, ok \in BOOLEAN :
          initGCPSQLAdminClient(g, ok) /\ UNCHANGED <<valVars, keyVars, credVars, testVars>>
    \/ \E g \in Goroutines :
          GetInstanceMetadataClient(g) /\ UNCHANGED <<valVars, keyVars, credVars, testVars>>
    \/ \E g \in Goroutines, ok \in BOOLEAN :
          initInstanceMetadata(g, ok) /\ UNCHANGED <<valVars, keyVars, credVars, testVars>>
    \/ \E g \in Goroutines : GetGCPGKEClient(g) /\ UNCHANGED <<valVars, keyVars, credVars, testVars>>
    \/ \E g \in Goroutines, ok \in BOOLEAN :
          initGCPGKEClient(g, ok) /\ UNCHANGED <<valVars, keyVars, credVars, testVars>>
    \/ \E g \in Goroutines :
          CallGetAzureCredential(g) /\ UNCHANGED <<valVars, keyVars, credVars, testVars>>
    \/ \E g \in Goroutines : GetAzureCredential(g) /\ UNCHANGED <<valVars, keyVars, credVars, testVars>>
    \/ \E g \in Goroutines, ok \in BOOLEAN :
          initAzureCredential(g, ok) /\ UNCHANGED <<valVars, keyVars, credVars, testVars>>
    \/ \E g \in Goroutines :
          GetAzureSubscriptionClient(g) /\ UNCHANGED <<valVars, keyVars, credVars, testVars>>
    \/ \E g \in Goroutines, ok \in BOOLEAN :
          initAzureSubscriptionsClient(g, ok) /\ UNCHANGED <<valVars, keyVars, credVars, testVars>>
    \/ \E ok \in BOOLEAN : Close(ok) /\ UNCHANGED <<valVars, keyVars, credVars, testVars>>

SingletonSpec == Init /\ [][SingletonNext]_vars

(***************************************************************************)
(* GetAWSSession on chains with empty hops: the goroutines call it for one *)
(* region with a chain of at most MaxHops roles, given as it is or with a  *)
(* hop without role ARN put somewhere into it.                             *)
(***************************************************************************)
FilterRegions == {"us-east-1"}
FilterRoles == {AssumeRole(RoleA, "x"), AssumeRole(RoleC, "")}
WithEmptyHop(roles, at) ==
    SubSeq(roles, 1, at - 1) \o <<AssumeRole("", "x")>> \o SubSeq(roles, at, Len(roles))
FilterChains ==
    LET given == SeqsUpTo(FilterRoles, MaxHops)
    IN  given \cup UNION {{WithEmptyHop(roles, at) : at \in 1..(Len(roles) + 1)} :
                              roles \in given}

FilterNext ==
    \/ \E g \in Goroutines, region \in FilterRegions, roles \in FilterChains :
          GetAWSSession(g, region, roles) /\ UNCHANGED <<clientVars, valVars, keyVars, credVars, testVars>>
    \/ \E g \in Goroutines : getAWSSession(g) /\ UNCHANGED <<clientVars, valVars, keyVars, credVars, testVars>>
    \/ \E g \in Goroutines : initAWSSession(g) /\ UNCHANGED <<clientVars, valVars, keyVars, credVars, testVars>>
    \/ \E g \in Goroutines, ok \in BOOLEAN :
          NewSessionWithOptions(g, ok) /\ UNCHANGED <<clientVars, valVars, keyVars, credVars, testVars>>
    \/ \E g \in Goroutines : ReturnSession(g) /\ UNCHANGED <<clientVars, valVars, keyVars, credVars, testVars>>
    \/ \E g \in Goroutines :
          getAWSSessionForRole(g) /\ UNCHANGED <<clientVars, valVars, keyVars, credVars, testVars>>
    \/ \E g \in Goroutines :
          initAWSSessionForRole(g) /\ UNCHANGED <<clientVars, valVars, keyVars, credVars, testVars>>
    \/ \E g \in Goroutines, outcome \in ProbeOutcomes :
          GetWithContext(g, outcome) /\ UNCHANGED <<clientVars, valVars, keyVars, credVars, testVars>>

FilterSpec == Init /\ [][FilterNext]_vars

(***************************************************************************)
(* checkAndSetAssumeRoles on its own: every region and every chain of at   *)
(* most MaxValHops roles over the ARNs and external IDs above.             *)
(***************************************************************************)
ValARNs == {RoleA, RoleB, RoleC, RoleCN, UserU, NotARN, ""}
ValRoles == {AssumeRole(a, e) : a \in ValARNs, e \in ExternalIDs}
ValChains == SeqsUpTo(ValRoles, MaxValHops)

Validate ==
    /\ ~vOut.done
    /\ LET v == checkAndSetAssumeRoles(vIn.region, vIn.roles)
       IN  vOut' = [done |-> TRUE, err |-> v.err, roles |-> v.roles]
    /\ UNCHANGED <<vIn, brokerVars, keyVars, credVars, testVars>>

ValInit ==
    /\ BrokerInit
    /\ GetterInit(NoConfig)
    /\ vIn \in [region : Regions, roles : ValChains]
    /\ vOut = NoValOut
    /\ kIn = <<>>
    /\ kOut = <<>>
    /\ tIn = NoTestIn
    /\ tOut = NoTestOut

ValNext == Validate

ValSpec == ValInit /\ [][ValNext]_vars

(***************************************************************************)
(* checkAndSetAssumeRoles called on its own result: a chain is validated,  *)
(* and the chain a successful validation returned is validated again for   *)
(* the same region.                                                        *)
(***************************************************************************)
Revalidate ==
    /\ vOut.done
    /\ vOut.err = NoErr
    /\ DOMAIN vOut = DOMAIN NoValOut
    /\ LET v == checkAndSetAssumeRoles(vIn.region, vOut.roles)
       IN  vOut' = [done |-> TRUE, err |-> vOut.err, roles |-> vOut.roles,
                    again |-> [err |-> v.err, roles |-> v.roles]]
    /\ UNCHANGED <<vIn, brokerVars, keyVars, credVars, testVars>>

AgainNext == Validate \/ Revalidate

AgainSpec == ValInit /\ [][AgainNext]_vars

(***************************************************************************)
(* filterAssumeRoles and checkAndSetAssumeRoles on the memory of the       *)
(* slices: mem maps a backing array to the hops it holds, and a slice is   *)
(* named by its backing array (every slice here begins at the start of its *)
(* array and holds all of it).  A nil slice is Nil.                        *)
(***************************************************************************)
CallerSlice == 1
MadeSlice == 2

\* filterAssumeRoles, lines 1135-1146: an empty slice is returned as it is;
\* otherwise the hops are appended to a slice made at line 1139.
filterAssumeRolesAt_InPlace(mem, roles) ==
    [mem |-> [mem EXCEPT ![roles] = SelectSeq(mem[roles], LAMBDA r : r.RoleARN # "")],
     roles |-> roles]

filterAssumeRolesAt(mem, roles) ==
    IF Len(mem[roles]) = 0 THEN [mem |-> mem, roles |-> roles]
    ELSE [mem |-> (MadeSlice :> SelectSeq(mem[roles], LAMBDA r : r.RoleARN # "")) @@ mem,
          roles |-> MadeSlice]

\* Body of the second loop, lines 1122-1130, writing through the slice.
PairStepAt(mem, roles, ARNs, i) ==
    IF ARNs[i].AccountID = ARNs[i + 1].AccountID
    THEN [err |-> NoErr, mem |-> [mem EXCEPT ![roles][i + 1].ExternalID = ""]]
    ELSE IF mem[roles][i + 1].ExternalID = ""
         THEN [err |-> Err("MissingExternalID", mem[roles][i].RoleARN,
                           mem[roles][i + 1].RoleARN),
               mem |-> mem]
         ELSE [err |-> NoErr, mem |-> mem]

RECURSIVE PairLoopAt(_, _, _, _)
PairLoopAt(mem, roles, ARNs, i) ==
    IF i > Len(ARNs) - 1 THEN [err |-> NoErr, roles |-> roles, mem |-> mem]
    ELSE LET s == PairStepAt(mem, roles, ARNs, i)
         IN  IF s.err # NoErr THEN [err |-> s.err, roles |-> Nil, mem |-> s.mem]
             ELSE PairLoopAt(s.mem, roles, ARNs, i + 1)

\* checkAndSetAssumeRoles, lines 1104-1132: the slice returned, the error
\* and the memory left behind.
checkAndSetAssumeRolesAt(region, mem0, roles0) ==
    LET f == filterAssumeRolesAt(mem0, roles0)
    IN  IF Len(f.mem[f.roles]) = 0 THEN [err |-> NoErr, roles |-> f.roles, mem |-> f.mem]
        ELSE LET partition == GetPartitionFromRegion(region)
                 p == ParseLoop(f.mem[f.roles], partition, 1, <<>>)
             IN  IF p.err # NoErr THEN [err |-> p.err, roles |-> Nil, mem |-> f.mem]
                 ELSE PairLoopAt(f.mem, f.roles, p.ARNs, 1)

(***************************************************************************)
(* checkAndSetAssumeRoles on the caller's slice: GetAWSSession hands the   *)
(* slice of its caller to it at line 256 and reads only the slice it       *)
(* returns afterwards.  The caller's slice holds the chain of vIn.         *)
(***************************************************************************)
ValidateAt ==
    /\ ~vOut.done
    /\ LET v == checkAndSetAssumeRolesAt(vIn.region, CallerSlice :> vIn.roles, CallerSlice)
       IN  vOut' = [done |-> TRUE, err |-> v.err,
                    roles |-> IF v.roles = Nil THEN <<>> ELSE v.mem[v.roles],
                    slice |-> v.roles, mem |-> v.mem]
    /\ UNCHANGED <<vIn, brokerVars, keyVars, credVars, testVars>>

MemNext == ValidateAt

MemSpec == ValInit /\ [][MemNext]_vars

(***************************************************************************)
(* AWSSessionCacheKeyBuilder on its own: two builders, each seeded with a  *)
(* region and fed the roles of a chain, over strings that may hold the     *)
(* text the key format puts between its fields.                            *)
(***************************************************************************)
KeyRegions == {"us-east-1",
               "us-east-1:Role[0]:ARN[arn:aws:iam::111111111111:role/A]:ExternalID[]"}
KeyARNs == {RoleA, "arn:aws:iam::111111111111:role/A]:ExternalID[x"}
KeyExternalIDs == {"", "x]:ExternalID["}
KeyRoles == {AssumeRole(a, e) : a \in KeyARNs, e \in KeyExternalIDs}
KeyChains == SeqsUpTo(KeyRoles, MaxKeyHops)

\* GetAWSSession, lines 270-273: the next role of chain j goes into builder j.
KeyAddRole(j) ==
    /\ kOut[j].roleCount < Len(kIn[j].roles)
    /\ kOut' = [kOut EXCEPT ![j] = AddRole(kOut[j], kIn[j].roles[kOut[j].roleCount + 1])]
    /\ UNCHANGED <<kIn, brokerVars, valVars, credVars, testVars>>

KeyInit ==
    /\ BrokerInit
    /\ GetterInit(NoConfig)
    /\ vIn = NoValIn
    /\ vOut = NoValOut
    /\ kIn \in [1..2 -> [region : KeyRegions, roles : KeyChains]]
    /\ kOut = [j \in 1..2 |-> NewAWSSessionCacheKeyBuilder(kIn[j].region)]
    /\ tIn = NoTestIn
    /\ tOut = NoTestOut

KeyNext == \E j \in 1..2 : KeyAddRole(j)

KeySpec == KeyInit /\ [][KeyNext]_vars

(***************************************************************************)
(* The cached credentials getter on its own: it is built from a config and *)
(* Get is called at most MaxGets times, each call some seconds after the   *)
(* one before it.                                                          *)
(***************************************************************************)
Getters == {NoGetter, "custom"}
CacheTTLs == {-1, 0, 2}
Configs == [Getter : Getters, CacheTTL : CacheTTLs]
Elapses(ttl) == {1, ttl + 1}

CredInit ==
    /\ BrokerInit
    /\ \E c \in Configs : GetterInit(c)
    /\ vIn = NoValIn
    /\ vOut = NoValOut
    /\ kIn = <<>>
    /\ kOut = <<>>
    /\ tIn = NoTestIn
    /\ tOut = NoTestOut

CredNext ==
    \/ NewCachedCredentialsGetter /\ UNCHANGED <<brokerVars, valVars, keyVars, testVars>>
    \/ \E request \in CredRequests, elapsed \in Elapses(config.CacheTTL), ok \in BOOLEAN :
          Get(request, elapsed, ok) /\ UNCHANGED <<brokerVars, valVars, keyVars, testVars>>

CredSpec == CredInit /\ [][CredNext]_vars

(***************************************************************************)
(* TestCloudClients.GetAWSSession on its own: a test double that requires  *)
(* roles or not, whose fixtures were made for the chains seeded in a       *)
(* region, is asked for the session of a region and a chain.               *)
(***************************************************************************)
MaxTestHops == 2
TestRoles == {AssumeRole(RoleA, ""), AssumeRole(RoleA, "x"), AssumeRole(RoleB, "x"),
              AssumeRole(RoleC, ""), AssumeRole(RoleC, "x"), AssumeRole("", "")}
TestChains == SeqsUpTo(TestRoles, MaxTestHops)

\* helpers_test.go, mustAddAssumedRolesAndMockSessionsForMatchers: one
\* fixture for every region of the matcher, under the key makeAWSSession gives.
Seeded(regions, roles) ==
    LET keys == {makeAWSSession(r, roles).key : r \in regions}
    IN  [k \in keys |->
            makeAWSSession(CHOOSE r \in regions : makeAWSSession(r, roles).key = k,
                           roles).session]

TestInit ==
    /\ BrokerInit
    /\ GetterInit(NoConfig)
    /\ vIn = NoValIn
    /\ vOut = NoValOut
    /\ kIn = <<>>
    /\ kOut = <<>>
    /\ \E rr \in BOOLEAN, regions \in SUBSET Regions, seed \in TestChains,
          region \in Regions, roles \in TestChains :
          tIn = [RequireRoles |-> rr,
                 AWSAssumeRoleSessions |-> Seeded(regions, seed),
                 region |-> region, roles |-> roles]
    /\ tOut = NoTestOut

TestCall ==
    /\ ~tOut.done
    /\ LET r == TestGetAWSSession(tIn, tIn.region, tIn.roles)
       IN  tOut' = [done |-> TRUE, session |-> r.session, err |-> r.err,
                    key |-> r.key, net |-> r.net]
    /\ UNCHANGED <<tIn, brokerVars, valVars, keyVars, credVars>>

TestNext == TestCall

TestSpec == TestInit /\ [][TestNext]_vars

(***************************************************************************)
(* TestCloudClients: the getters of the Azure MySQL, PostgreSQL and AKS    *)
(* clients.  A fixture holds, for each of the three, a client and a map    *)
(* from subscriptions to clients; a getter is called once with a           *)
(* subscription.                                                           *)
(***************************************************************************)
FixtureClients == 1..2
FixtureDefaults == {Nil, 3}
FixtureMaps == UNION {[S -> FixtureClients] : S \in SUBSET Subscriptions}

\* m[k] of a Go map: the zero value when the key is absent.
MapIndex(m, k) == IF k \in DOMAIN m THEN m[k] ELSE Nil

\* len(m) of a Go map.
MapLen(m) == Cardinality(DOMAIN m)

\* TestCloudClients.GetAzureMySQLClient, lines 987-992.
TestGetAzureMySQLClient(c, subscription) ==
    IF MapLen(c.AzureMySQLPerSub) # 0
    THEN MapIndex(c.AzureMySQLPerSub, subscription)
    ELSE c.AzureMySQL

\* TestCloudClients.GetAzurePostgresClient, lines 995-1000.
TestGetAzurePostgresClient(c, subscription) ==
    IF MapLen(c.AzurePostgresPerSub) # 0
    THEN MapIndex(c.AzurePostgresPerSub, subscription)
    ELSE c.AzurePostgres

\* TestCloudClients.GetAzureKubernetesClient, lines 1003-1008: the map whose
\* length is tested at line 1004 is AzurePostgresPerSub.
TestGetAzureKubernetesClient(c, subscription) ==
    IF MapLen(c.AzurePostgresPerSub) # 0
    THEN MapIndex(c.AzureAKSClientPerSub, subscription)
    ELSE c.AzureAKSClient

FixtureGetters == {"GetAzureMySQLClient", "GetAzurePostgresClient", "GetAzureKubernetesClient"}

NoFixtureOut == [done |-> FALSE, op |-> "", client |-> Nil]

FixtureInit ==
    /\ BrokerInit
    /\ GetterInit(NoConfig)
    /\ vIn = NoValIn
    /\ vOut = NoValOut
    /\ kIn = <<>>
    /\ kOut = <<>>
    /\ tIn \in [AzureMySQL : FixtureDefaults, AzureMySQLPerSub : FixtureMaps,
                AzurePostgres : FixtureDefaults, AzurePostgresPerSub : FixtureMaps,
                AzureAKSClient : FixtureDefaults, AzureAKSClientPerSub : FixtureMaps,
                subscription : Subscriptions]
    /\ tOut = NoFixtureOut

FixtureCall(op) ==
    /\ ~tOut.done
    /\ tOut' = [done |-> TRUE, op |-> op,
                client |-> CASE op = "GetAzureMySQLClient" ->
                                    TestGetAzureMySQLClient(tIn, tIn.subscription)
                             [] op = "GetAzurePostgresClient" ->
                                    TestGetAzurePostgresClient(tIn, tIn.subscription)
                             [] op = "GetAzureKubernetesClient" ->
                                    TestGetAzureKubernetesClient(tIn, tIn.subscription)]
    /\ UNCHANGED <<tIn, brokerVars, valVars, keyVars, credVars>>

FixtureNext == \E op \in FixtureGetters : FixtureCall(op)

FixtureSpec == FixtureInit /\ [][FixtureNext]_vars

(***************************************************************************)
(* Properties of the key builder and of the validation.                    *)
(***************************************************************************)
NonEmptyHops(roles) == SelectSeq(roles, LAMBDA r : r.RoleARN # "")
IsRoleARN(s) == ParseRoleARN(s).err = NoErr
Account(s) == ParseRoleARN(s).AccountID
InPartition(s, region) == ParseRoleARN(s).Partition = GetPartitionFromRegion(region)
WellFormed(f, region) ==
    \A i \in 1..Len(f) : IsRoleARN(f[i].RoleARN) /\ InPartition(f[i].RoleARN, region)
CrossAccount(f, i) ==
    /\ IsRoleARN(f[i].RoleARN)
    /\ IsRoleARN(f[i + 1].RoleARN)
    /\ Account(f[i].RoleARN) # Account(f[i + 1].RoleARN)
\* The cross-account pairs of f whose later hop has no external ID.
Unguarded(f) == {i \in 1..(Len(f) - 1) : CrossAccount(f, i) /\ f[i + 1].ExternalID = ""}
Least(S) == CHOOSE i \in S : \A j \in S : i <= j

KeysBuilt == /\ DOMAIN kIn = 1..2
             /\ \A j \in 1..2 : kOut[j].roleCount = Len(kIn[j].roles)

\* C4: the cache key is injective on (region, chain), the key of a region
\* alone included: two builders fed different (region, chain) arguments never
\* hold the same key, whatever text the strings contain.
C4_KeyInjective ==
    KeysBuilt /\ kIn[1] # kIn[2] => String(kOut[1]) # String(kOut[2])

\* C7 as stated: for every cross-account pair of the filtered chain whose
\* later hop has no external ID, validation fails with an error naming the two
\* role ARNs of that pair; a pair whose later hop has an external ID is not
\* the reason of a failure.
C7_EveryPairNamed ==
    vOut.done =>
        LET f == NonEmptyHops(vIn.roles)
        IN  /\ \A i \in Unguarded(f) :
                  /\ vOut.err # NoErr
                  /\ vOut.err.a = f[i].RoleARN
                  /\ vOut.err.b = f[i + 1].RoleARN
            /\ vOut.err.kind = "MissingExternalID" => Unguarded(f) # {}

\* C7 amended: validation fails whenever the filtered chain has a
\* cross-account pair whose later hop has no external ID; when every hop is a
\* role ARN of the region's partition the error names the two role ARNs of the
\* first such pair; the missing-external-ID error is raised for such a pair
\* only, never for a pair whose later hop has an external ID.
C7_CrossAccountNeedsExternalID ==
    vOut.done =>
        LET f == NonEmptyHops(vIn.roles)
        IN  /\ Unguarded(f) # {} => vOut.err # NoErr
            /\ Unguarded(f) # {} /\ WellFormed(f, vIn.region) =>
                  vOut.err = Err("MissingExternalID", f[Least(Unguarded(f))].RoleARN,
                                 f[Least(Unguarded(f)) + 1].RoleARN)
            /\ vOut.err.kind = "MissingExternalID" =>
                  \E i \in Unguarded(f) :
                      vOut.err.a = f[i].RoleARN /\ vOut.err.b = f[i + 1].RoleARN

\* A chain of three hops, a guarded cross-account pair followed by an
\* unguarded one: validation fails and the error names the second pair.
C7_Witness ==
    /\ vOut.done
    /\ vIn.region = "us-east-1"
    /\ LET f == NonEmptyHops(vIn.roles)
       IN  /\ Len(f) = 3
           /\ CrossAccount(f, 1) /\ f[2].ExternalID # ""
           /\ Unguarded(f) = {2}
           /\ vOut.err = Err("MissingExternalID", f[2].RoleARN, f[3].RoleARN)

\* C9: a hop whose role ARN lies in another partition than the region's makes
\* validation fail, wherever the hop stands in the chain.
C9_PartitionMismatchRejected ==
    vOut.done =>
        ((\E i \in 1..Len(vIn.roles) :
              /\ vIn.roles[i].RoleARN # ""
              /\ IsRoleARN(vIn.roles[i].RoleARN)
              /\ ~InPartition(vIn.roles[i].RoleARN, vIn.region))
         => vOut.err # NoErr)

\* The last of three hops is a well-formed role ARN of another partition,
\* the hops before it are accepted, and validation fails on the partition.
C9_Witness ==
    /\ vOut.done
    /\ Len(vIn.roles) = 3
    /\ WellFormed(SubSeq(vIn.roles, 1, 2), vIn.region)
    /\ IsRoleARN(vIn.roles[3].RoleARN)
    /\ ~InPartition(vIn.roles[3].RoleARN, vIn.region)
    /\ vOut.err.kind = "PartitionMismatch"
    /\ vOut.err.a = vIn.roles[3].RoleARN

\* C10: validation rejects a chain exactly when a non-empty RoleARN is no IAM
\* role ARN, or a role ARN lies outside the region's partition, or a
\* cross-account pair has a later hop without external ID; the error tells
\* which; every other chain is accepted.
C10_ExactlyThreeReasons ==
    vOut.done =>
        LET f == NonEmptyHops(vIn.roles)
            unparsable == \E i \in 1..Len(f) : ~IsRoleARN(f[i].RoleARN)
            foreign == \E i \in 1..Len(f) :
                          IsRoleARN(f[i].RoleARN) /\ ~InPartition(f[i].RoleARN, vIn.region)
            unguarded == Unguarded(f) # {}
        IN  /\ vOut.err # NoErr <=> (unparsable \/ foreign \/ unguarded)
            /\ vOut.err.kind \in {"nil", "InvalidRoleARN", "PartitionMismatch",
                                  "MissingExternalID"}
            /\ vOut.err.kind = "InvalidRoleARN" => unparsable
            /\ vOut.err.kind = "PartitionMismatch" => foreign
            /\ vOut.err.kind = "MissingExternalID" => unguarded

\* A chain of three hops with a repeated role, an external ID on the first
\* hop and an empty hop between them is accepted.
C10_Witness ==
    /\ vOut.done
    /\ vOut.err = NoErr
    /\ Len(vIn.roles) >= 3
    /\ \E i \in 1..Len(vIn.roles) : vIn.roles[i].RoleARN = ""
    /\ Len(vOut.roles) >= 2
    /\ vOut.roles[1].ExternalID # ""
    /\ vOut.roles[1].RoleARN = vOut.roles[2].RoleARN

(***************************************************************************)
(* Properties of the session cache.                                        *)
(***************************************************************************)
Done(g) == pc[g] = "done"
Succeeded(g) == Done(g) /\ ret[g].err = NoErr
ValidationErrors == {"InvalidRoleARN", "PartitionMismatch", "MissingExternalID"}
FailedValidation(g) == Done(g) /\ ret[g].err.kind \in ValidationErrors
PriorSessions(g) == {r.session : r \in {q \in prior[g] : q.err = NoErr}}

\* The chain validation is to return: the non-empty hops, the external ID
\* dropped from every hop in the account of the hop before it.
Normalized(roles) ==
    LET f == NonEmptyHops(roles)
    IN  [j \in 1..Len(f) |->
            AssumeRole(f[j].RoleARN,
                       IF j > 1 /\ Account(f[j - 1].RoleARN) = Account(f[j].RoleARN)
                       THEN "" ELSE f[j].ExternalID)]

RECURSIVE KeyOf(_, _, _)
KeyOf(region, roles, n) ==
    IF n = 0 THEN NewAWSSessionCacheKeyBuilder(region)
    ELSE AddRole(KeyOf(region, roles, n - 1), roles[n])

\* C1: a call that begins after GetAWSSession has returned a session for the
\* same region and chain makes no network call and returns that session.
C1_IdempotentCacheHit ==
    \A g \in Goroutines :
        PriorSessions(g) # {} =>
            /\ net[g] = 0
            /\ pc[g] \notin {"initAWSSession", "NewSessionWithOptions",
                             "initAWSSessionForRole", "GetWithContext"}
            /\ Done(g) => ret[g].err = NoErr /\ PriorSessions(g) = {ret[g].session}

\* The second call for a chain of two hops returned the session of the first.
C1_Witness ==
    \E g \in Goroutines :
        /\ Done(g)
        /\ Len(local[g].roles) = 2
        /\ PriorSessions(g) = {ret[g].session}
        /\ net[g] = 0

C3_NoNetworkCallUnderLock ==
    \A g \in Goroutines : pc[g] = "GetWithContext" => mtx # g

\* C5: a failed assume-role call ends the invocation with the error, without
\* a retry, and nothing is stored; and whenever a call reaches a hop whose
\* key is not cached it issues the assume-role call, also after a failure.
C5_FailureNotCachedNotRetried ==
    [][\A g \in Goroutines :
          /\ (pc[g] = "GetWithContext" /\ pc'[g] = "done" =>
                 /\ ret'[g].err.kind \in ProbeOutcomes \ {"ok"}
                 /\ ret'[g].session = Nil
                 /\ awsSessions' = awsSessions
                 /\ ~(local[g].cacheKey \in DOMAIN awsSessions')
                 /\ attempts' = attempts
                 /\ net' = net)
          /\ (pc[g] = "initAWSSessionForRole" /\ pc'[g] # pc[g]
                  /\ ~Cached(local[g].cacheKey) =>
                 /\ pc'[g] = "GetWithContext"
                 /\ attempts'[local[g].cacheKey] = Count(local[g].cacheKey) + 1)
          /\ (pc[g] = "done" => pc'[g] = "done")
      ]_vars

\* The assume-role call of a hop was rejected, and the identical call made
\* after that failure was rejected at the same hop: the hop was tried twice
\* and its key is not cached.
C5_Witness ==
    \E g \in Goroutines :
        /\ Done(g)
        /\ ret[g].err.kind = "AccessDenied"
        /\ \E r \in prior[g] : r.err = ret[g].err
        /\ attempts[ret[g].err.a] = 2
        /\ ~Cached(ret[g].err.a)
        /\ net[g] = 1

\* C6: a call that fails validation makes no network call, and as long as
\* every call made so far has failed validation the cache holds nothing, not
\* even a base session.
C6_InvalidChainTouchesNothing ==
    /\ \A g \in Goroutines : FailedValidation(g) => net[g] = 0 /\ misses[g] = 0
    /\ (\A g \in Goroutines : pc[g] = "idle" \/ FailedValidation(g)) =>
           awsSessions = <<>> /\ nextSession = 1 /\ mtx = 0

\* A call was rejected for a missing external ID and another for its
\* partition, and the cache is still empty.
C6_Witness ==
    /\ \E g \in Goroutines : Done(g) /\ ret[g].err.kind = "MissingExternalID"
    /\ \E g \in Goroutines : Done(g) /\ ret[g].err.kind = "PartitionMismatch"
    /\ awsSessions = <<>>

\* C8: when validation succeeds the chain the call works with is the
\* caller's chain without its empty hops, the external ID dropped exactly
\* from the hops in the account of the hop before them; role ARNs, order and
\* every other external ID are the caller's; and every key sessions are
\* cached under is a region or the key of a prefix of such a chain.
C8_NormalizedChainAndKeys ==
    /\ \A g \in Goroutines :
           pc[g] # "idle" /\ ~FailedValidation(g) =>
               /\ local[g].roles = Normalized(call[g].roles)
               /\ pc[g] \in {"initAWSSessionForRole", "GetWithContext"} =>
                      local[g].cacheKey =
                          String(KeyOf(call[g].region, Normalized(call[g].roles),
                                       local[g].i + 1))
    /\ \A k \in DOMAIN awsSessions :
           \E g \in Goroutines :
               /\ pc[g] # "idle" /\ ~FailedValidation(g)
               /\ \E n \in 0..Len(NonEmptyHops(call[g].roles)) :
                      k = String(KeyOf(call[g].region, Normalized(call[g].roles), n))

\* A caller passed an external ID on a hop in the account of the hop before
\* it; the call succeeded, its chain has the external ID dropped, and the
\* session is cached under the key without it.
C8_Witness ==
    \E g \in Goroutines :
        /\ Succeeded(g)
        /\ Len(local[g].roles) = 2
        /\ NonEmptyHops(call[g].roles)[2].ExternalID = "x"
        /\ NonEmptyHops(call[g].roles)[1].ExternalID = "x"
        /\ local[g].roles[2].ExternalID = ""
        /\ local[g].roles[1].ExternalID = "x"
        /\ Cached(String(KeyOf(call[g].region, local[g].roles, 2)))
        /\ awsSessions[String(KeyOf(call[g].region, local[g].roles, 2))] = ret[g].session

(***************************************************************************)
(* The log.                                                                *)
(***************************************************************************)
\* What the line of an assumed role holds before and after the external ID of
\* the last role of its key.
BeforeExternalID ==
    {"Initializing AWS session for assumed role: \""
         \o String(KeyOf(region, roles, Len(roles)))
         \o ":Role[" \o ToString(Len(roles)) \o "]:ARN[" \o r.RoleARN \o "]:ExternalID[" :
     region \in Regions, roles \in SeqsUpTo(BrokerRoles, MaxHops - 1), r \in BrokerRoles}
AfterExternalID == {"]\"."}

\* The line has the text e in it, after one of the strings above.
Contains(line, e) ==
    \E p \in BeforeExternalID, q \in AfterExternalID : line = p \o e \o q

\* C11: no line the broker writes to the log during GetAWSSession contains
\* the external ID of a hop some caller passed; external IDs are in the cache
\* keys only.
C11_NoExternalIDInLogs ==
    \A line \in logs :
        \A g \in Goroutines :
            \A j \in 1..Len(call[g].roles) :
                call[g].roles[j].ExternalID # "" =>
                    ~Contains(line, call[g].roles[j].ExternalID)

(***************************************************************************)
(* Close and the clients.                                                  *)
(***************************************************************************)
\* A step in which a call of Close runs, and what that call returned.
CloseRuns == Len(closeRet') = Len(closeRet) + 1
LastClose == closeRet'[Len(closeRet')]
InstancesOf(kind, key) ==
    {id \in DOMAIN instances : instances[id].kind = kind /\ instances[id].key = key}

\* C12: Close is idempotent.  A call of Close closes the GCP IAM client the
\* broker holds, if it holds one, and drops the reference, so that the broker
\* holds none after any Close; a Close of a broker that holds none (as the
\* second of two consecutive calls finds it) closes nothing, changes nothing
\* and returns no error; no client object has Close invoked on it twice.
C12_CloseIdempotent ==
    /\ [](\A id \in DOMAIN instances : instances[id].closes <= 1)
    /\ [][CloseRuns =>
            /\ gcpIAM' = Nil
            /\ LastClose.closed = gcpIAM
            /\ gcpIAM # Nil =>
                  /\ instances[gcpIAM].kind = "gcpIAM"
                  /\ instances' = [instances EXCEPT ![gcpIAM].closes = 1]
            /\ gcpIAM = Nil =>
                  /\ LastClose.err = NoErr
                  /\ UNCHANGED <<awsSessions, mtx, pc, call, local, ret, gcpIAM,
                                 azureCredential, azureMySQLClients, client, nextClient,
                                 instances>>]_vars

\* Close was called twice in a row on a broker holding a GCP IAM client: the
\* first call closed the client, the second closed nothing and returned no
\* error, and the client was closed once.
C12_Witness ==
    /\ Len(closeRet) = 2
    /\ closeRet[1].closed # Nil
    /\ closeRet[2].closed = Nil
    /\ closeRet[2].err = NoErr
    /\ closeRet[2].at = closeRet[1].at
    /\ InstancesOf("gcpIAM", "") = {closeRet[1].closed}
    /\ instances[closeRet[1].closed].closes = 1
    /\ gcpIAM = Nil

\* Call g of GetAWSSession began after the i-th Close, and call h, with the
\* same region and roles, had returned a session before that Close.
CachedBeforeClose(g, h, i) ==
    /\ closeRet[i].at[h] = "done"
    /\ closeRet[i].at[g] = "idle"
    /\ pc[g] # "idle"
    /\ client[g].op = ""
    /\ client[h].op = ""
    /\ call[g] = call[h]
    /\ Succeeded(h)

\* C13: Close leaves the session cache, the Azure credential and the Azure
\* clients as they are; a GetAWSSession for a region and chain that a call
\* had a session for before a Close makes no network call after the Close
\* and returns that same session.
C13_CloseKeepsSessions ==
    /\ [][CloseRuns => UNCHANGED <<awsSessions, azureCredential, azureMySQLClients>>]_vars
    /\ [](\A g, h \in Goroutines : \A i \in 1..Len(closeRet) :
              CachedBeforeClose(g, h, i) =>
                  /\ net[g] = 0
                  /\ pc[g] \notin {"initAWSSession", "NewSessionWithOptions",
                                   "initAWSSessionForRole", "GetWithContext"}
                  /\ Done(g) => ret[g] = ret[h])

\* A chain of two hops was cached, Close ran, and the same call made after
\* it returned the session of before without a network call.
C13_Witness ==
    \E g, h \in Goroutines : \E i \in 1..Len(closeRet) :
        /\ CachedBeforeClose(g, h, i)
        /\ Done(g)
        /\ Len(local[g].roles) = 2
        /\ ret[g].session = ret[h].session
        /\ ret[g].session = awsSessions[String(KeyOf(call[g].region, local[g].roles, 2))]
        /\ net[g] = 0
        /\ net[h] = 3

\* Call g of GetAzureMySQLClient has returned a client.
GotAzureMySQLClient(g) ==
    /\ Done(g)
    /\ client[g].op = "GetAzureMySQLClient"
    /\ ret[g].err = NoErr

\* C14: whatever the number of goroutines asking for the Azure MySQL client
\* of a subscription and however their steps interleave, the client stored
\* for a subscription is never replaced, one client object at most is ever
\* stored for it, and every caller that gets a client gets the stored one.
C14_OneClientPerSubscription ==
    /\ [][\A sub \in DOMAIN azureMySQLClients :
              /\ sub \in DOMAIN azureMySQLClients'
              /\ azureMySQLClients'[sub] = azureMySQLClients[sub]]_vars
    /\ [](\A g \in Goroutines :
              GotAzureMySQLClient(g) =>
                  /\ client[g].subscription \in DOMAIN azureMySQLClients
                  /\ ret[g].session = azureMySQLClients[client[g].subscription])
    /\ [](\A sub \in Subscriptions :
              InstancesOf("azureMySQL", sub) =
                  IF sub \in DOMAIN azureMySQLClients THEN {azureMySQLClients[sub]} ELSE {})

\* Two goroutines asked for the client of the same subscription at the same
\* time, both missed the read-locked lookup, and both got the one client
\* that is stored.
C14_Witness ==
    /\ \A g \in {1, 2} :
           /\ GotAzureMySQLClient(g)
           /\ client[g].subscription = "sub1"
           /\ client[g].cred # Nil
           /\ ret[g].session = azureMySQLClients["sub1"]
    /\ Cardinality(InstancesOf("azureMySQL", "sub1")) = 1

(***************************************************************************)
(* Canceled contexts; calls without roles; the keys of the prefixes.       *)
(***************************************************************************)
\* A step in which the assume-role call of g is given up because the context
\* of g was canceled.
Canceled(g) ==
    /\ pc[g] = "GetWithContext"
    /\ pc'[g] = "done"
    /\ ret'[g].err.kind = "RequestCanceled"

\* C15: when the context of a caller is canceled during its assume-role call,
\* that call alone fails: it returns no session, nothing is stored, removed or
\* changed in the cache, and every other goroutine, one waiting for the same
\* key included, is where it was and goes on to make its own assume-role call,
\* whose session it stores.
C15_CancelFailsOnlyTheCaller ==
    /\ [][\A g \in Goroutines :
              Canceled(g) =>
                  /\ ret'[g].session = Nil
                  /\ awsSessions' = awsSessions
                  /\ ~Cached(local[g].cacheKey)
                  /\ \A h \in Goroutines \ {g} :
                         pc'[h] = pc[h] /\ ret'[h] = ret[h] /\ local'[h] = local[h]]_vars
    /\ [][\A h \in Goroutines :
              /\ pc[h] = "initAWSSessionForRole"
              /\ pc'[h] # pc[h]
              /\ ~Cached(local[h].cacheKey)
              => pc'[h] = "GetWithContext"]_vars
    /\ [][\A h \in Goroutines :
              pc[h] = "GetWithContext" /\ pc'[h] = "loop" =>
                  /\ Cached(local[h].cacheKey)'
                  /\ awsSessions'[local[h].cacheKey] = local'[h].session]_vars

\* Two goroutines asked for the same role at the same time; the context of
\* the first was canceled during its assume-role call; the second, which had
\* missed the key too, made the call itself and its session is the one cached.
C15_Witness ==
    \E g, h \in Goroutines :
        /\ Done(g)
        /\ ret[g].err.kind = "RequestCanceled"
        /\ Succeeded(h)
        /\ call[h] = call[g]
        /\ Len(local[h].roles) = 1
        /\ misses[h] = 1
        /\ prior[h] = {}
        /\ prior[g] = {}
        /\ attempts[ret[g].err.a] = 2
        /\ awsSessions[ret[g].err.a] = ret[h].session

(***************************************************************************)
(* The cached credentials getter.                                          *)
(***************************************************************************)
\* Get i fetched the credentials that are in the cache for the request of
\* Get j when Get j is made.
FetchBefore(i, j) ==
    /\ i < j
    /\ gets[i].request = gets[j].request
    /\ gets[i].fetched
    /\ \A k \in (i + 1)..(j - 1) : gets[k].request = gets[j].request => ~gets[k].fetched

\* C16: a Get made less than the TTL after the fetch for an equal request
\* does not call the underlying getter and returns what that fetch returned;
\* a Get made more than the TTL after the fetch calls the underlying getter
\* once more.
C16_FetchOncePerTTL ==
    \A j \in 1..Len(gets) : \A i \in 1..Len(gets) :
        FetchBefore(i, j) =>
            /\ gets[j].at - gets[i].at < config.CacheTTL =>
                  /\ ~gets[j].fetched
                  /\ gets[j].calls = gets[i].calls
                  /\ gets[j].credentials = gets[i].credentials
                  /\ gets[j].err = gets[i].err
            /\ gets[j].at - gets[i].at > config.CacheTTL =>
                  /\ gets[j].fetched
                  /\ gets[j].calls = gets[i].calls + 1

\* Three calls of Get with the same request under the default TTL: the first
\* fetched, the second, a second later, was served from the cache, the third,
\* more than a minute after the fetch, fetched again.
C16_Witness ==
    /\ Len(gets) = 3
    /\ config.CacheTTL = Minute
    /\ \A j \in 1..3 : gets[j].request = BaseRequest /\ gets[j].err = NoErr
    /\ gets[1].fetched /\ gets[1].calls = 1
    /\ gets[2].at - gets[1].at < Minute
    /\ ~gets[2].fetched /\ gets[2].calls = 1
    /\ gets[2].credentials = gets[1].credentials
    /\ gets[3].at - gets[1].at > Minute
    /\ gets[3].fetched /\ gets[3].calls = 2
    /\ gets[3].credentials # gets[1].credentials

\* C17: Get never returns, for a request, credentials fetched for a request
\* that differs from it in a field; an entry cached for another request
\* neither serves the request nor keeps it from being fetched: the first Get
\* of a request fetches, and a Get served from the cache returns what the
\* fetch for its own request returned.
C17_KeyedByFullRequest ==
    \A j \in 1..Len(gets) :
        /\ gets[j].err = NoErr => gets[j].credentials.request = gets[j].request
        /\ (\A i \in 1..(j - 1) : gets[i].request # gets[j].request) => gets[j].fetched
        /\ ~gets[j].fetched =>
               \E i \in 1..(j - 1) :
                   /\ FetchBefore(i, j)
                   /\ gets[j].credentials = gets[i].credentials
                   /\ gets[j].err = gets[i].err

\* Credentials were fetched for a request; a second later a request with
\* another external ID was fetched on its own; a second later the first
\* request was served its own credentials from the cache.
C17_Witness ==
    /\ Len(gets) = 3
    /\ \A j \in 1..3 : gets[j].err = NoErr
    /\ gets[1].request = BaseRequest
    /\ gets[2].request = [BaseRequest EXCEPT !.ExternalID = "x"]
    /\ gets[3].request = BaseRequest
    /\ gets[2].at = gets[1].at + 1
    /\ gets[3].at = gets[2].at + 1
    /\ gets[1].fetched /\ gets[2].fetched /\ ~gets[3].fetched
    /\ gets[2].credentials # gets[1].credentials
    /\ gets[3].credentials = gets[1].credentials

\* C18: SetDefaults makes the cache TTL one minute when the configured
\* CacheTTL is zero or negative and leaves a positive CacheTTL as it is; it
\* makes the getter the default getter when none is configured and leaves a
\* configured getter as it is.
C18_SetDefaults ==
    config # NoConfig =>
        /\ cfgIn.CacheTTL <= 0 => config.CacheTTL = Minute
        /\ cfgIn.CacheTTL > 0 => config.CacheTTL = cfgIn.CacheTTL
        /\ cfgIn.Getter = NoGetter => config.Getter = DefaultGetter
        /\ cfgIn.Getter # NoGetter => config.Getter = cfgIn.Getter

\* A getter was built from a config with a getter and a zero CacheTTL: the
\* getter is kept, the TTL is one minute.
C18_Witness ==
    /\ cfgIn = [Getter |-> "custom", CacheTTL |-> 0]
    /\ config = [Getter |-> "custom", CacheTTL |-> Minute]

(***************************************************************************)
(* Calls without roles; the keys of the prefixes of a chain.               *)
(***************************************************************************)
\* Goroutine g runs or has run GetAWSSession.
InGetAWSSession(g) == pc[g] # "idle" /\ client[g].op = ""
NoRoles(g) == InGetAWSSession(g) /\ NonEmptyHops(call[g].roles) = <<>>

\* C19: GetAWSSession with no role, or with roles whose RoleARN is empty
\* only, validates nothing, whatever the region, and makes no assume-role
\* call: unless the base session of the region cannot be built, it returns
\* the session cached under the region, the same one at every call.
C19_NoRolesGivesBaseSession ==
    /\ \A g \in Goroutines :
           NoRoles(g) =>
               /\ local[g].roles = <<>>
               /\ misses[g] = 0
               /\ pc[g] \notin {"initAWSSessionForRole", "GetWithContext"}
               /\ Done(g) => ret[g].err \in {NoErr, Err("NewSessionError", call[g].region, "")}
               /\ Succeeded(g) =>
                      /\ Cached(call[g].region)
                      /\ ret[g].session = awsSessions[call[g].region]
    /\ (\A g \in Goroutines : pc[g] = "idle" \/ NoRoles(g)) => attempts = <<>>
    /\ \A g, h \in Goroutines :
           /\ NoRoles(g) /\ Succeeded(g)
           /\ NoRoles(h) /\ Succeeded(h)
           /\ call[g].region = call[h].region
           => ret[g].session = ret[h].session

\* In the region of another partition, a call without roles and a later call
\* with two hops of empty RoleARN returned the same base session; the later
\* call made no network call.
C19_Witness ==
    /\ call[1] = [region |-> "cn-north-1", roles |-> <<>>]
    /\ call[2] = [region |-> "cn-north-1",
                  roles |-> <<AssumeRole("", ""), AssumeRole("", "")>>]
    /\ Succeeded(1) /\ Succeeded(2)
    /\ ret[1].session = ret[2].session
    /\ ret[1].session = awsSessions["cn-north-1"]
    /\ net[1] = 1 /\ net[2] = 0
    /\ attempts = <<>>

IsPrefix(p, q) == Len(p) <= Len(q) /\ \A j \in 1..Len(p) : p[j] = q[j]
PrefixKey(g, j) == String(KeyOf(call[g].region, local[g].roles, j))

\* C20: after GetAWSSession has returned a session for a chain of n hops the
\* cache holds the base session under the region and a session under the key
\* of every prefix of the chain, the one returned under the key of the whole
\* chain.  The assume-role call of a hop is made exactly when the key of the
\* prefix is absent at the lookup under Lock: a call that runs alone on an
\* empty cache makes n assume-role calls, one per key, and once a call has
\* returned a session no call for a prefix of its chain makes a network call.
C20_PrefixKeysPopulated ==
    /\ [](\A g \in Goroutines :
              InGetAWSSession(g) /\ Succeeded(g) =>
                  /\ \A j \in 0..Len(local[g].roles) : Cached(PrefixKey(g, j))
                  /\ ret[g].session = awsSessions[PrefixKey(g, Len(local[g].roles))]
                  /\ (\A h \in Goroutines \ {g} : pc[h] = "idle") =>
                         /\ net[g] = Len(local[g].roles) + 1
                         /\ DOMAIN attempts = {PrefixKey(g, j) : j \in 1..Len(local[g].roles)}
                         /\ \A k \in DOMAIN attempts : attempts[k] = 1)
    /\ [][\A g \in Goroutines :
              pc[g] = "initAWSSessionForRole" /\ pc'[g] # pc[g] =>
                  IF Cached(local[g].cacheKey)
                  THEN pc'[g] = "loop" /\ attempts' = attempts /\ net' = net
                  ELSE /\ pc'[g] = "GetWithContext"
                       /\ attempts'[local[g].cacheKey] = Count(local[g].cacheKey) + 1]_vars
    /\ [][attempts' # attempts =>
              \E g \in Goroutines :
                  pc[g] = "initAWSSessionForRole" /\ pc'[g] = "GetWithContext"]_vars
    /\ [][\A g, h \in Goroutines :
              /\ InGetAWSSession(g) /\ Succeeded(g)
              /\ InGetAWSSession(h)
              /\ call[h].region = call[g].region
              /\ IsPrefix(local[h].roles, local[g].roles)
              => net'[h] = net[h] /\ misses'[h] = misses[h]]_vars

\* A call for a chain of two hops ran on an empty cache and made the two
\* assume-role calls; the call for the first hop alone, made by the other
\* goroutine, then returned the session cached under the key of that prefix
\* without a network call.
C20_Witness ==
    \E g, h \in Goroutines :
        /\ InGetAWSSession(g) /\ Succeeded(g)
        /\ InGetAWSSession(h) /\ Succeeded(h)
        /\ Len(local[g].roles) = 2
        /\ Len(local[h].roles) = 1
        /\ call[h].region = call[g].region
        /\ IsPrefix(local[h].roles, local[g].roles)
        /\ net[g] = 3
        /\ net[h] = 0
        /\ attempts[PrefixKey(g, 1)] = 1
        /\ attempts[PrefixKey(g, 2)] = 1
        /\ ret[h].session = awsSessions[PrefixKey(g, 1)]
        /\ ret[g].session = awsSessions[PrefixKey(g, 2)]
        /\ ret[g].session # ret[h].session


(***************************************************************************)
(* Properties of the test double.                                          *)
(***************************************************************************)
\* The chains the validation of the broker accepts.
Accepted(region, roles) ==
    LET f == NonEmptyHops(roles) IN WellFormed(f, region) /\ Unguarded(f) = {}
\* The key under which the broker stores the last session of a chain.
FinalKey(region, roles) ==
    String(KeyOf(region, Normalized(roles), Len(Normalized(roles))))

Alike(r1, r2) ==
    /\ Len(r1) = Len(r2)
    /\ \A i \in 1..Len(r1) :
           /\ r1[i].RoleARN = r2[i].RoleARN
           /\ r1[i].ExternalID # r2[i].ExternalID =>
                  /\ i > 1
                  /\ IsRoleARN(r1[i - 1].RoleARN) /\ IsRoleARN(r1[i].RoleARN)
                  /\ Account(r1[i - 1].RoleARN) = Account(r1[i].RoleARN)

\* C22: two calls for one region whose chains have the same role ARNs and
\* differ only in the external ID of hops in the account of the hop before
\* them are validated alike and walk the same cache keys at every prefix;
\* the one that begins after the other has returned a session makes no
\* network call and returns that session.
C22_DroppedExternalIDSharesSessions ==
    \A g, h \in Goroutines :
        /\ pc[g] # "idle" /\ pc[h] # "idle"
        /\ call[g].region = call[h].region
        /\ Alike(call[g].roles, call[h].roles)
        => /\ FailedValidation(g) <=> FailedValidation(h)
           /\ ~FailedValidation(g) =>
                  /\ Len(local[g].roles) = Len(local[h].roles)
                  /\ \A n \in 0..Len(local[g].roles) :
                         String(KeyOf(call[g].region, local[g].roles, n)) =
                             String(KeyOf(call[h].region, local[h].roles, n))
           /\ g \in returnedBefore[h] /\ Succeeded(g) =>
                  /\ net[h] = 0
                  /\ misses[h] = 0
                  /\ Done(h) => ret[h] = ret[g]

\* After a call for two hops in one account had returned a session, a call
\* with another external ID on the second hop returned the same session
\* without a network call.
C22_Witness ==
    \E g, h \in Goroutines :
        /\ Succeeded(g) /\ Succeeded(h)
        /\ g \in returnedBefore[h]
        /\ Len(call[g].roles) = 2
        /\ Alike(call[g].roles, call[h].roles)
        /\ call[g].region = call[h].region
        /\ call[g].roles[2].ExternalID # call[h].roles[2].ExternalID
        /\ ret[h].session = ret[g].session
        /\ net[h] = 0

\* What the validation returns for the chain of a call with the hops without
\* role ARN taken out of it.
OfNonEmptyHops(g) == checkAndSetAssumeRoles(call[g].region, NonEmptyHops(call[g].roles))

\* C23: a call is validated and served as the call for its chain without the
\* hops that have no role ARN: it fails validation exactly when that chain
\* does, with the same error, the cross-account rule seeing the hops that
\* are neighbours once the empty hops are gone; it walks the normalized
\* hops of that chain and the keys of their prefixes, an empty hop taking no
\* ordinal; and of two calls whose chains differ in empty hops only, the one
\* that begins after the other has returned a session makes no network call
\* and returns that session.
C23_EmptyHopsIgnored ==
    /\ \A g \in Goroutines :
           pc[g] # "idle" =>
               /\ FailedValidation(g) <=> OfNonEmptyHops(g).err # NoErr
               /\ FailedValidation(g) => ret[g].err = OfNonEmptyHops(g).err
               /\ ~FailedValidation(g) =>
                      /\ local[g].roles = OfNonEmptyHops(g).roles
                      /\ local[g].i <= Len(NonEmptyHops(call[g].roles))
                      /\ pc[g] \in {"initAWSSessionForRole", "GetWithContext"} =>
                             local[g].cacheKey =
                                 String(KeyOf(call[g].region, OfNonEmptyHops(g).roles,
                                              local[g].i + 1))
    /\ \A g, h \in Goroutines :
           /\ pc[g] # "idle" /\ pc[h] # "idle"
           /\ call[g].region = call[h].region
           /\ NonEmptyHops(call[g].roles) = NonEmptyHops(call[h].roles)
           /\ g \in returnedBefore[h] /\ Succeeded(g)
           => /\ net[h] = 0
              /\ Done(h) => ret[h] = ret[g]

\* A call for two hops with an empty hop between them returned a session
\* after two assume-role calls, the second of them for the key of ordinal 1,
\* and a later call for the two hops alone returned that session without a
\* network call.
C23_Witness ==
    \E g, h \in Goroutines :
        /\ Succeeded(g) /\ Succeeded(h)
        /\ g \in returnedBefore[h]
        /\ Len(call[g].roles) = 3
        /\ call[g].roles[2].RoleARN = ""
        /\ call[h].roles = NonEmptyHops(call[g].roles)
        /\ misses[g] = 2
        /\ LET key == String(KeyOf(call[g].region, local[g].roles, 2))
           IN  key \in DOMAIN awsSessions /\ awsSessions[key] = ret[g].session
        /\ net[h] = 0
        /\ ret[h].session = ret[g].session

(***************************************************************************)
(* Properties of the sessions of a chain.                                  *)
(***************************************************************************)
\* The key of the first n hops of the chain goroutine g walks; the region
\* when n = 0.
PrefixKeyOf(g, n) == String(KeyOf(call[g].region, local[g].roles, n))
InLoop(g) == pc[g] \in {"loop", "initAWSSessionForRole", "GetWithContext"}

\* C24: a call walks its hops in chain order, holding after i hops the
\* session stored for the first i hops (the base session of the region when
\* i = 0); every assume-role call for the key of i + 1 hops was made with the
\* session stored for the first i hops as its base and for the role of hop
\* i; and every session stored for a chain of hops came from such a call.
C24_HopUsesSessionOfPrefix ==
    /\ \A g \in Goroutines :
           InLoop(g) =>
               /\ local[g].i \in 0..Len(local[g].roles)
               /\ PrefixKeyOf(g, local[g].i) \in DOMAIN awsSessions
               /\ local[g].session = awsSessions[PrefixKeyOf(g, local[g].i)]
               /\ pc[g] # "loop" =>
                      /\ local[g].i < Len(local[g].roles)
                      /\ local[g].cacheKey = PrefixKeyOf(g, local[g].i + 1)
    /\ \A c \in stsCalls :
           \E g \in Goroutines :
               \E n \in 1..Len(local[g].roles) :
                   /\ pc[g] # "idle"
                   /\ c.cacheKey = PrefixKeyOf(g, n)
                   /\ c.RoleARN = local[g].roles[n].RoleARN
                   /\ PrefixKeyOf(g, n - 1) \in DOMAIN awsSessions
                   /\ c.baseSession = awsSessions[PrefixKeyOf(g, n - 1)]
    /\ \A k \in DOMAIN awsSessions :
           k \notin Regions =>
               /\ \E c \in stsCalls : c.cacheKey = k
               /\ \A c, d \in stsCalls :
                      c.cacheKey = k /\ d.cacheKey = k => c.baseSession = d.baseSession

\* A call found the session of its first hop in the cache, made the
\* assume-role call of its second hop with that session as the base, and
\* returned the session stored for both hops.
C24_Witness ==
    \E g \in Goroutines :
        /\ Succeeded(g)
        /\ Len(local[g].roles) = 2
        /\ misses[g] = 1
        /\ net[g] = 1
        /\ awsSessions[PrefixKeyOf(g, 2)] = ret[g].session
        /\ \E c \in stsCalls :
               /\ c.cacheKey = PrefixKeyOf(g, 2)
               /\ c.baseSession = awsSessions[PrefixKeyOf(g, 1)]
               /\ c.baseSession # awsSessions[call[g].region]

(***************************************************************************)
(* Properties of the cache as a whole.                                     *)
(***************************************************************************)
\* C25: no step of the broker, Close among them, removes a key of the
\* session cache or puts another session under a key that has one.
C25_CacheOnlyGrows ==
    [][\A k \in DOMAIN awsSessions :
           k \in DOMAIN awsSessions' /\ awsSessions'[k] = awsSessions[k]]_vars

\* Two goroutines both missed the read-locked lookup of the same key, the
\* second of them found the session at its second check, and the broker was
\* closed after both sessions of the chain had been stored.
C25_Witness ==
    /\ \E g, h \in Goroutines :
           /\ g # h
           /\ Succeeded(g) /\ Succeeded(h)
           /\ call[g] = call[h]
           /\ Len(local[g].roles) = 1
           /\ misses[g] = 1 /\ misses[h] = 1
           /\ net[h] = 0
           /\ ret[g].session = awsSessions[PrefixKeyOf(g, 1)]
           /\ ret[h].session = ret[g].session
    /\ Len(closeRet) > 0
    /\ Cardinality(DOMAIN awsSessions) = 2

\* The keys a call looks up: the region and the key of every prefix of its
\* chain.
NeededKeys(g) == {PrefixKeyOf(g, n) : n \in 0..Len(local[g].roles)}

\* C26: a call that is at a lookup, with the keys of its whole chain in the
\* cache, can take its next step while another goroutine waits for the
\* answer to the assume-role call for a key the call does not need.
C26_CachedCallNeverWaits ==
    \A g, h \in Goroutines :
        /\ g # h
        /\ pc[g] \in {"getAWSSession", "loop"}
        /\ NeededKeys(g) \subseteq DOMAIN awsSessions
        /\ pc[h] = "GetWithContext"
        /\ local[h].cacheKey \notin NeededKeys(g)
        => ENABLED (getAWSSession(g) \/ getAWSSessionForRole(g) \/ ReturnSession(g))

\* The error of a call whose base session could not be built.
BaseFailed(g) == Err("NewSessionError", call[g].region, "")

\* C27: every session the broker has built is stored under one key of its
\* own, so the base session of a region is built at most once; a call enters
\* its loop with the session stored under its region, and every assume-role
\* call for a first hop has that session as its base; a call whose base
\* session cannot be built returns the error at once, having stored nothing,
\* looked up no hop and made no assume-role call.
C27_BaseSessionOnceAndRoot ==
    /\ [](/\ nextSession - 1 = Cardinality(DOMAIN awsSessions)
          /\ \A k1, k2 \in DOMAIN awsSessions :
                 awsSessions[k1] = awsSessions[k2] => k1 = k2
          /\ \A g \in Goroutines :
                 /\ InLoop(g) /\ local[g].i = 0 =>
                        /\ call[g].region \in DOMAIN awsSessions
                        /\ local[g].session = awsSessions[call[g].region]
                 /\ pc[g] # "idle" /\ Len(local[g].roles) > 0 =>
                        \A c \in stsCalls :
                            c.cacheKey = PrefixKeyOf(g, 1) =>
                                /\ call[g].region \in DOMAIN awsSessions
                                /\ c.baseSession = awsSessions[call[g].region]
                 /\ Succeeded(g) /\ local[g].roles = <<>> =>
                        ret[g].session = awsSessions[call[g].region]
                 /\ Done(g) /\ ret[g].err = BaseFailed(g) =>
                        ret[g].session = Nil /\ net[g] = 1 /\ misses[g] = 0)
    /\ [][\A g \in Goroutines :
              pc[g] = "NewSessionWithOptions" /\ ret'[g].err = BaseFailed(g) =>
                  /\ pc'[g] = "done"
                  /\ awsSessions' = awsSessions
                  /\ stsCalls' = stsCalls
                  /\ attempts' = attempts]_vars

\* The base session of a region could not be built for one call; a later
\* call built it, and its assume-role call for the first hop had it as the
\* base.
C27_Witness ==
    \E g, h \in Goroutines :
        /\ Done(g) /\ ret[g].err = BaseFailed(g)
        /\ Len(local[g].roles) > 0
        /\ Succeeded(h)
        /\ call[h].region = call[g].region
        /\ Len(local[h].roles) = 1
        /\ net[h] = 2
        /\ \E c \in stsCalls :
               /\ c.cacheKey = PrefixKeyOf(h, 1)
               /\ c.baseSession = awsSessions[call[h].region]

(***************************************************************************)
(* Properties of the clients the broker keeps one of.                      *)
(***************************************************************************)
SingletonKinds == {"instanceMetadata", "gcpIAM", "gcpSQLAdmin", "gcpGKE",
                   "azureCredential", "azureSubscriptionsClient"}
\* The field of cloudClients that holds the client of a kind, and the getter
\* of the kind.
Stored(kind) ==
    IF kind = "gcpIAM" THEN gcpIAM
    ELSE IF kind = "azureCredential" THEN azureCredential
    ELSE singletons[kind]
GetterOf(kind) ==
    IF kind = "instanceMetadata" THEN "GetInstanceMetadataClient"
    ELSE IF kind = "gcpIAM" THEN "GetGCPIAMClient"
    ELSE IF kind = "gcpSQLAdmin" THEN "GetGCPSQLAdminClient"
    ELSE IF kind = "gcpGKE" THEN "GetGCPGKEClient"
    ELSE IF kind = "azureCredential" THEN "GetAzureCredential"
    ELSE "GetAzureSubscriptionClient"
Constructing(g) ==
    pc[g] \in {"initInstanceMetadata", "initGCPIAMClient", "initGCPSQLAdminClient",
               "initGCPGKEClient", "initAzureCredential", "initAzureSubscriptionsClient"}

\* C28: of every kind of client the broker keeps one of, every instance ever
\* built is the one stored in the broker's field unless Close has closed it,
\* so no second one is built while one is stored; a getter that succeeds
\* returns an instance of its kind that is the stored one unless Close has
\* closed it since; a getter that fails returns no client, and the step in
\* which a construction fails leaves every field and the set of instances
\* as they were.
C28_OneInstancePerSingleton ==
    /\ [](\A kind \in SingletonKinds :
              /\ \A id \in InstancesOf(kind, "") :
                     id = Stored(kind) \/ instances[id].closes > 0
              /\ Stored(kind) # Nil => Stored(kind) \in InstancesOf(kind, "")
              /\ \A g \in Goroutines :
                     Done(g) /\ client[g].op = GetterOf(kind) =>
                         IF ret[g].err = NoErr
                         THEN /\ ret[g].session \in InstancesOf(kind, "")
                              /\ \/ ret[g].session = Stored(kind)
                                 \/ instances[ret[g].session].closes > 0
                         ELSE ret[g].session = Nil)
    /\ [][\A g \in Goroutines :
              Constructing(g) /\ pc'[g] = "done" /\ ret'[g].err # NoErr =>
                  /\ instances' = instances
                  /\ <<gcpIAM, azureCredential, singletons>>' =
                         <<gcpIAM, azureCredential, singletons>>]_vars

\* Two goroutines asked for the instance metadata client when there was
\* none; the construction failed for one of them, the other one built the
\* client that is stored now.
C28_Witness ==
    \E g, h \in Goroutines :
        /\ client[g].op = "GetInstanceMetadataClient"
        /\ client[h].op = "GetInstanceMetadataClient"
        /\ Done(g) /\ ret[g].err.kind = "DiscoverInstanceMetadataError"
        /\ net[g] = 1
        /\ Succeeded(h)
        /\ net[h] = 1
        /\ ret[h].session = singletons.instanceMetadata
        /\ InstancesOf("instanceMetadata", "") = {ret[h].session}

\* C29: the broker builds one Azure credential at most, the one it stores;
\* every Azure MySQL client stored for a subscription was built with that
\* credential; a getter of such a client that cannot obtain the credential
\* returns the error and no client, and the step in which the credential
\* fails stores nothing.
C29_OneAzureCredential ==
    /\ [](/\ InstancesOf("azureCredential", "") =
                 IF azureCredential # Nil THEN {azureCredential} ELSE {}
          /\ \A sub \in DOMAIN azureMySQLClients :
                 /\ azureCredential # Nil
                 /\ instances[azureMySQLClients[sub]].cred = azureCredential
          /\ \A g \in Goroutines :
                 /\ pc[g] = "initAzureMySQLClient" => client[g].cred = azureCredential
                 /\ Done(g) /\ ret[g].err.kind = "NewDefaultAzureCredentialError" =>
                        ret[g].session = Nil)
    /\ [][\A g \in Goroutines :
              pc[g] = "initAzureCredential" /\ ret'[g].err # NoErr =>
                  /\ pc'[g] = "done"
                  /\ ret'[g].err.kind = "NewDefaultAzureCredentialError"
                  /\ azureMySQLClients' = azureMySQLClients
                  /\ azureCredential' = azureCredential
                  /\ instances' = instances]_vars

\* The clients of two subscriptions were built by two goroutines, the first
\* of which built the credential and the second of which found it stored;
\* both clients were built with it.
C29_Witness ==
    \E g, h \in Goroutines :
        /\ GotAzureMySQLClient(g) /\ GotAzureMySQLClient(h)
        /\ client[g].subscription # client[h].subscription
        /\ DOMAIN azureMySQLClients = {client[g].subscription, client[h].subscription}
        /\ instances[ret[g].session].cred = azureCredential
        /\ instances[ret[h].session].cred = azureCredential
        /\ Cardinality(InstancesOf("azureCredential", "")) = 1

(***************************************************************************)
(* Properties of the assume-role calls.                                    *)
(***************************************************************************)
\* What the assume-role call for a hop is to carry as its external ID.
Carried(role) == IF role.ExternalID # "" THEN <<role.ExternalID>> ELSE <<>>
\* The assume-role calls made for the first n hops of the chain of g.
CallsFor(g, n) == {c \in stsCalls : c.cacheKey = PrefixKeyOf(g, n)}

\* C30: every assume-role call was made for a hop of a validated chain, for
\* the role ARN of that hop, and carries an external ID exactly when the
\* normalized hop has one, and then that one; so the external ID a caller
\* gives on a hop in the account of the hop before it is never sent, and the
\* one given on the first hop always is.
C30_ExternalIDSentAsNormalized ==
    /\ \A c \in stsCalls :
           \E g \in Goroutines :
               /\ pc[g] # "idle" /\ ~FailedValidation(g)
               /\ \E n \in 1..Len(local[g].roles) : c \in CallsFor(g, n)
    /\ \A g \in Goroutines :
           pc[g] # "idle" /\ ~FailedValidation(g) =>
               LET f == NonEmptyHops(call[g].roles)
               IN  \A n \in 1..Len(f) :
                       \A c \in CallsFor(g, n) :
                           /\ c.RoleARN = f[n].RoleARN
                           /\ c.ExternalID = Carried(Normalized(call[g].roles)[n])
                           /\ Len(c.ExternalID) = 1 => c.ExternalID[1] = f[n].ExternalID
                           /\ n > 1 /\ Account(f[n - 1].RoleARN) = Account(f[n].RoleARN) =>
                                  c.ExternalID = <<>>
                           /\ n = 1 /\ f[n].ExternalID # "" =>
                                  c.ExternalID = <<f[n].ExternalID>>

\* A caller gave the same external ID on two hops of one account; the
\* assume-role call of the first hop carried it, that of the second hop
\* carried none, and the call returned a session.
C30_Witness ==
    \E g \in Goroutines :
        /\ Succeeded(g)
        /\ Len(call[g].roles) = 2
        /\ call[g].roles[1].ExternalID = "x"
        /\ call[g].roles[2].ExternalID = "x"
        /\ \E c \in CallsFor(g, 1) : c.ExternalID = <<"x">>
        /\ \E c \in CallsFor(g, 2) : c.ExternalID = <<>>
        /\ net[g] = 3

(***************************************************************************)
(* Properties of a chain whose assume-role call fails at some hop.         *)
(***************************************************************************)
\* The call of g returned the failure of the assume-role step of a hop.
HopFailed(g) ==
    /\ Done(g)
    /\ ret[g].err.kind \in ProbeOutcomes \ {"ok"}
    /\ ret[g].err.a # call[g].region
\* The hop whose key the error of g carries.
FailedHop(g) ==
    CHOOSE k \in 1..Len(local[g].roles) : PrefixKeyOf(g, k) = ret[g].err.a

\* C31: when the assume-role step of hop k of a call has failed, the base
\* session and the sessions of the prefixes shorter than k are in the cache
\* from then on; a call for the same region and chain that begins
\* afterwards finds them there, so it misses the lookup, and makes an
\* assume-role call, for hop k and the hops after it only.
C31_FailedHopKeepsPrefixes ==
    \A g \in Goroutines :
        HopFailed(g) =>
            /\ \E k \in 1..Len(local[g].roles) : PrefixKeyOf(g, k) = ret[g].err.a
            /\ ret[g].session = Nil
            /\ \A n \in 0..(FailedHop(g) - 1) : PrefixKeyOf(g, n) \in DOMAIN awsSessions
            /\ \A h \in Goroutines :
                   g \in returnedBefore[h] /\ call[h] = call[g] =>
                       /\ pc[h] \notin {"initAWSSession", "NewSessionWithOptions"}
                       /\ pc[h] \in {"initAWSSessionForRole", "GetWithContext"} =>
                              local[h].i + 1 >= FailedHop(g)
                       /\ misses[h] <= Len(local[g].roles) - FailedHop(g) + 1
                       /\ net[h] <= Len(local[g].roles) - FailedHop(g) + 1

\* A call built the session of its first hop and failed at its second; a
\* later call for the same chain made one assume-role call, for the second
\* hop, and returned a session.
C31_Witness ==
    \E g, h \in Goroutines :
        /\ HopFailed(g)
        /\ Len(local[g].roles) = 2
        /\ FailedHop(g) = 2
        /\ misses[g] = 2
        /\ g \in returnedBefore[h]
        /\ call[h] = call[g]
        /\ Succeeded(h)
        /\ misses[h] = 1
        /\ net[h] = 1

(***************************************************************************)
(* Properties of the construction of role sessions.                        *)
(***************************************************************************)
RECURSIVE SumOf(_, _)
SumOf(f, S) ==
    IF S = {} THEN 0
    ELSE LET k == CHOOSE x \in S : TRUE IN f[k] + SumOf(f, S \ {k})
\* The assume-role calls that have returned, and those of them that failed.
InFlight == Cardinality({g \in Goroutines : pc[g] = "GetWithContext"})
Answered == SumOf(attempts, DOMAIN attempts) - InFlight
RoleKeys == DOMAIN awsSessions \ Regions

\* The calls that returned because the session could not be built from
\* credentials the cloud had accepted for the key.
AcceptedUnbuilt(key) ==
    {g \in Goroutines : Done(g) /\ ret[g].err = Err("NewSessionError", key, "")}

\* C32, as stated: for every cache key of a role, the cloud has accepted at
\* most one assume-role call, the one whose session is stored.
C32_OneAcceptedCallPerKey ==
    \A g \in Goroutines :
        pc[g] # "idle" =>
            \A n \in 1..Len(local[g].roles) :
                Cardinality(AcceptedUnbuilt(PrefixKeyOf(g, n)))
                    + (IF PrefixKeyOf(g, n) \in RoleKeys THEN 1 ELSE 0) <= 1

\* C32: a goroutine waits for the answer to an assume-role call only while
\* it holds the lock and its key has no session; every assume-role call
\* that was answered either gave no session or gave the session of a key of
\* its own, so as many sessions have been built from assume-role calls as
\* there are role keys in the cache, one for each of them, and every session
\* ever built is stored under one key.
C32_OneSuccessPerKey ==
    /\ \A g \in Goroutines :
           pc[g] = "GetWithContext" =>
               /\ mtx = g
               /\ local[g].cacheKey \notin DOMAIN awsSessions
    /\ Answered - failures = Cardinality(RoleKeys)
    /\ \A k \in RoleKeys : k \in DOMAIN attempts /\ attempts[k] >= 1
    /\ \A k \in DOMAIN awsSessions : awsSessions[k] \in 1..(nextSession - 1)
    /\ Cardinality({awsSessions[k] : k \in DOMAIN awsSessions}) = nextSession - 1

\* Two goroutines missed the lookup of the same key; one assume-role call
\* was made for it, and both returned its session.
C32_Witness ==
    \E g, h \in Goroutines :
        /\ g # h
        /\ call[g] = call[h]
        /\ Len(local[g].roles) = 1
        /\ misses[g] = 1 /\ misses[h] = 1
        /\ Succeeded(g) /\ Succeeded(h)
        /\ attempts[PrefixKeyOf(g, 1)] = 1
        /\ net[h] = 0
        /\ ret[g].session = ret[h].session

\* C33: whenever the cache holds a session under the key of the first n
\* hops of a chain some call walks, n >= 1, it holds one under the region
\* and under the key of every shorter prefix of that chain; and every key of
\* the cache that is no region is the key of such a prefix.
C33_CachePrefixClosed ==
    /\ \A g \in Goroutines :
           pc[g] # "idle" =>
               \A n \in 1..Len(local[g].roles) :
                   PrefixKeyOf(g, n) \in DOMAIN awsSessions =>
                       \A m \in 0..(n - 1) : PrefixKeyOf(g, m) \in DOMAIN awsSessions
    /\ \A k \in RoleKeys :
           \E g \in Goroutines :
               /\ pc[g] # "idle"
               /\ \E n \in 1..Len(local[g].roles) : k = PrefixKeyOf(g, n)

\* The sessions of both hops of a chain are cached, with the base session
\* of the region, though the call for a longer chain that stored the first
\* of them had failed at its second hop.
C33_Witness ==
    \E g, h \in Goroutines :
        /\ HopFailed(g)
        /\ Len(local[g].roles) = 2
        /\ FailedHop(g) = 2
        /\ Succeeded(h)
        /\ Len(local[h].roles) = 2
        /\ call[h].region = call[g].region
        /\ local[h].roles[1] = local[g].roles[1]
        /\ local[h].roles[2] # local[g].roles[2]
        /\ \A n \in 0..2 : PrefixKeyOf(h, n) \in DOMAIN awsSessions
        /\ PrefixKeyOf(g, 2) \notin DOMAIN awsSessions

\* The goroutine that is between Lock() and the deferred Unlock() of
\* initAWSSession or initAWSSessionForRole, waiting for the network.
LockHeldAt == {"NewSessionWithOptions", "GetWithContext"}

\* C34: the lock is held only by a goroutine inside one of the locked
\* sections, which takes no lock there, so a goroutine that waits for the
\* lock or has returned never holds it; and under every interleaving of
\* GetAWSSession, GetGCPIAMClient, GetAzureMySQLClient and Close in which the
\* network calls return, every call that has begun returns.
C34_EveryCallReturns ==
    /\ [](/\ mtx \in Goroutines \cup {0}
          /\ \A g \in Goroutines : mtx = g <=> pc[g] \in LockHeldAt)
    /\ \A g \in Goroutines : (pc[g] # "idle") ~> Done(g)

\* Every goroutine has returned and nobody holds the lock, after a call of
\* GetAWSSession that took the lock for the base session and for a role, a
\* call of a client getter that built its client, and the calls of Close.
C34_Witness ==
    /\ mtx = 0
    /\ Len(closeRet) = MaxCloses
    /\ \A g \in Goroutines : Done(g)
    /\ \E g, h \in Goroutines :
           /\ client[g].op = ""
           /\ misses[g] >= 1
           /\ net[g] >= 2
           /\ client[h].op # ""
           /\ net[h] >= 1

\* The chain a successful validation returned has been validated again.
Revalidated == vOut.done /\ "again" \in DOMAIN vOut

\* C35: validation is idempotent.  When checkAndSetAssumeRoles succeeds for
\* a region and a chain, validating the chain it returned for the same
\* region succeeds as well and returns an equal chain.
C35_ValidationIdempotent ==
    Revalidated =>
        /\ vOut.again.err = NoErr
        /\ vOut.again.roles = vOut.roles

\* A chain of three hops with an empty one, in which validation dropped the
\* empty hop and cleared an external ID, was validated again.
C35_Witness ==
    /\ Revalidated
    /\ Len(vIn.roles) = 3
    /\ Len(vOut.roles) = 2
    /\ vOut.roles # NonEmptyHops(vIn.roles)
    /\ vOut.roles[1].ExternalID = "x"
    /\ vOut.again.roles = vOut.roles

\* The validation has run on the caller's slice.
ValidatedAt == vOut.done /\ "mem" \in DOMAIN vOut

\* C36: validation never modifies the caller's chain.  When
\* checkAndSetAssumeRoles has returned, with a chain or with an error, the
\* caller's slice holds the hops it held before the call; the chain returned
\* is the one the validation computes, and when it differs from the caller's
\* it is in a slice of its own.
C36_CallerChainUntouched ==
    ValidatedAt =>
        /\ vOut.mem[CallerSlice] = vIn.roles
        /\ [err |-> vOut.err, roles |-> vOut.roles]
               = checkAndSetAssumeRoles(vIn.region, vIn.roles)
        /\ vOut.roles # vIn.roles /\ vOut.err = NoErr => vOut.slice = MadeSlice

\* Validation cleared the external ID of the second hop in the copy and then
\* failed at the third hop: the caller's slice still has the external ID.
C36_Witness ==
    /\ ValidatedAt
    /\ vOut.err.kind = "MissingExternalID"
    /\ Len(vIn.roles) = 3
    /\ vIn.roles[2].ExternalID = "x"
    /\ vOut.mem[MadeSlice][2].ExternalID = ""
    /\ vOut.mem[CallerSlice][2].ExternalID = "x"

\* Call g of GetGCPIAMClient has returned; it began after the i-th call of
\* Close had returned, and that call closed a client.
IAMCallAfterClose(g, i) ==
    /\ Done(g)
    /\ client[g].op = "GetGCPIAMClient"
    /\ closeRet[i].at[g] = "idle"
    /\ closeRet[i].closed # Nil

\* C37 as it is stated: every call of GetGCPIAMClient that begins after a
\* Close has closed a client constructs a new client itself and returns it.
C37_CallAfterCloseConstructs ==
    \A g \in Goroutines : \A i \in 1..Len(closeRet) :
        IAMCallAfterClose(g, i) =>
            /\ Succeeded(g)
            /\ net[g] = 1
            /\ ret[g].session \in InstancesOf("gcpIAM", "")
            /\ ret[g].session > closeRet[i].closed

\* C37: the broker remains usable after Close.  A call of GetGCPIAMClient
\* that begins after a Close has closed a client never returns that client:
\* it returns a GCP IAM client built after that Close, which is the stored
\* one unless a later Close has closed it, and which it has constructed
\* itself when it found none stored; or, when it found none stored and the
\* construction failed, it returns the error of the construction and no
\* client.
C37_NeverTheClosedClient ==
    \A g \in Goroutines : \A i \in 1..Len(closeRet) :
        IAMCallAfterClose(g, i) =>
            /\ ret[g].session # closeRet[i].closed
            /\ Succeeded(g) =>
                  /\ ret[g].session \in InstancesOf("gcpIAM", "")
                  /\ ret[g].session > closeRet[i].closed
                  /\ \/ ret[g].session = gcpIAM
                     \/ \E j \in (i + 1)..Len(closeRet) : closeRet[j].closed = ret[g].session
            /\ ~Succeeded(g) =>
                  /\ ret[g].session = Nil
                  /\ ret[g].err = Err("NewIamCredentialsClientError", "", "")
                  /\ net[g] = 1

\* A client was built and closed by Close; a call of GetGCPIAMClient that
\* began after that found none, built a new client and returned it, and that
\* client is the stored one.
C37_Witness ==
    \E g \in Goroutines : \E i \in 1..Len(closeRet) :
        /\ IAMCallAfterClose(g, i)
        /\ Succeeded(g)
        /\ net[g] = 1
        /\ ret[g].session # closeRet[i].closed
        /\ ret[g].session = gcpIAM
        /\ instances[closeRet[i].closed].closes = 1
        /\ instances[gcpIAM].closes = 0

\* The i-th call of Close closed a client and closing it failed.
CloseFailed(i) == closeRet[i].closed # Nil /\ closeRet[i].err # NoErr

\* C38: a call of Close in which closing the GCP IAM client fails returns
\* that error and still drops the reference, and the client has been closed
\* once.  So no later Close closes that client again, and the next Close,
\* called before any goroutine has taken a step, closes nothing and returns
\* no error.
C38_FailedCloseClearsReference ==
    /\ [][CloseRuns /\ LastClose.err # NoErr =>
            /\ gcpIAM # Nil
            /\ LastClose.closed = gcpIAM
            /\ LastClose.err = Err("CloseError", "", "")
            /\ gcpIAM' = Nil
            /\ instances'[gcpIAM].closes = 1]_vars
    /\ [](\A i \in 1..Len(closeRet) :
              CloseFailed(i) =>
                  /\ instances[closeRet[i].closed].closes = 1
                  /\ \A j \in (i + 1)..Len(closeRet) :
                         closeRet[j].closed # closeRet[i].closed
                  /\ i < Len(closeRet) /\ closeRet[i + 1].at = closeRet[i].at =>
                         /\ closeRet[i + 1].closed = Nil
                         /\ closeRet[i + 1].err = NoErr)

\* Closing the GCP IAM client failed in the first call of Close, which
\* returned the error; the call of Close that followed it closed nothing and
\* returned no error, and the broker holds no client.
C38_Witness ==
    /\ Len(closeRet) = 2
    /\ CloseFailed(1)
    /\ closeRet[1].err = Err("CloseError", "", "")
    /\ closeRet[2].at = closeRet[1].at
    /\ closeRet[2].closed = Nil
    /\ closeRet[2].err = NoErr
    /\ instances[closeRet[1].closed].closes = 1
    /\ gcpIAM = Nil

\* The client a getter of the test double picks from a map of its own and a
\* default of its own: the map's entry when the map is not empty.
OwnSelection(perSub, default) ==
    IF MapLen(perSub) # 0 THEN MapIndex(perSub, tIn.subscription) ELSE default

\* C39: GetAzureKubernetesClient of the test double returns the entry of
\* AzureAKSClientPerSub for the subscription when that map is not empty and
\* AzureAKSClient otherwise, whatever the other fields of the fixture hold,
\* as GetAzureMySQLClient and GetAzurePostgresClient do with their own map
\* and default.
C39_AKSClientByOwnMap ==
    tOut.done =>
        /\ tOut.op = "GetAzureMySQLClient" =>
              tOut.client = OwnSelection(tIn.AzureMySQLPerSub, tIn.AzureMySQL)
        /\ tOut.op = "GetAzurePostgresClient" =>
              tOut.client = OwnSelection(tIn.AzurePostgresPerSub, tIn.AzurePostgres)
        /\ tOut.op = "GetAzureKubernetesClient" =>
              tOut.client = OwnSelection(tIn.AzureAKSClientPerSub, tIn.AzureAKSClient)

====
